---- MODULE Spec2Model ----
(***************************************************************************)
(* The three processes of the repository: the Users service                *)
(* (src/users-service/index.js), the Products service (the second program  *)
(* in src/gateway/index.js, from line 243) and the API gateway (the first  *)
(* program in src/gateway/index.js).                                       *)
(*                                                                         *)
(* JavaScript values.  A request field that the client did not send is a   *)
(* key missing from the body record (undefined).  Text fields (name,       *)
(* email, role, category, description) are TLA+ strings.  Fields the code  *)
(* converts or compares as numbers (price, stock, quantity, limit, the :id *)
(* path segment) are tagged values: a number v / 10^p (Num(n) is n         *)
(* hundredths; p exceeds 2 only when the number needs more decimals),      *)
(* Infinity, NaN, and Str(s) a string held as the sequence of its          *)
(* characters, so that parseInt, parseFloat and the implicit ToNumber of   *)
(* a comparison are computed as JavaScript computes them.  Integers are    *)
(* those of TLC (32 bits): a literal with more digits has no value here.   *)
(* Timestamps are integers (days since 2024-01-01).                        *)
(***************************************************************************)
EXTENDS Integers, Sequences, FiniteSets, TLC

VARIABLES
    users,          \* users-service: let users = [...]
    nextUserId,     \* users-service: let nextUserId
    products,       \* products-service: let products = [...]
    nextProductId,  \* products-service: let nextProductId
    now,            \* the system clock read by new Date()
    svc,            \* the service process that receives direct requests
    resp,           \* the last response a service sent to a direct request
    userIdLog,      \* history: every user id assigned so far, in order
    productIdLog,   \* history: every product id assigned so far, in order
    gw              \* gateway: per client, the request in flight

vars == <<users, nextUserId, products, nextProductId, now, svc, resp,
          userIdLog, productIdLog, gw>>

----------------------------------------------------------------------------
(* Bounds of the model *)

\* successful creates per service in a run of direct requests
MaxCreates == 1

\* successful creates per service in a run of gateway requests
MaxGwCreates == 2

\* clock ticks in a run of timed requests
MaxTicks == 1

\* successful creates in a run of the Users service's statistics
MaxStatsCreates == 4

----------------------------------------------------------------------------
(* JavaScript values and conversions *)

Scale == 100

\* the number n / 100
Num(n) == [t |-> "num", v |-> n, p |-> 2]

NaN == [t |-> "nan"]

\* Infinity (sign 1) and -Infinity (sign -1)
Inf(sign) == [t |-> "inf", sign |-> sign]

Str(s) == [t |-> "str", c |-> s]

\* a presence test written as a truthiness test
PresentAndTruthy(b, k) ==
    /\ k \in DOMAIN b
    /\ IF k \in {"price", "stock", "quantity", "limit", "minPrice", "maxPrice"}
       THEN /\ b[k].t # "nan"
            /\ b[k].t = "num" => b[k].v # 0
            /\ b[k].t = "str" => Len(b[k].c) > 0
       ELSE b[k] # ""

\* x !== undefined, for the field k of a body or query
Has(b, k) == k \in DOMAIN b

\* an assignment that keeps the value a property already has
PutIfAbsent(r, k, v) == IF k \in DOMAIN r THEN r ELSE (k :> v) @@ r

\* r.k = v
Put(r, k, v) == (k :> v) @@ r

Digits == {"0", "1", "2", "3", "4", "5", "6", "7", "8", "9"}

\* the value of c as a digit of a radix up to 16 (99 when it is no digit)
RadixDigit(c) ==
    CASE c = "0" -> 0 [] c = "1" -> 1 [] c = "2" -> 2 [] c = "3" -> 3
      [] c = "4" -> 4 [] c = "5" -> 5 [] c = "6" -> 6 [] c = "7" -> 7
      [] c = "8" -> 8 [] c = "9" -> 9
      [] c \in {"a", "A"} -> 10 [] c \in {"b", "B"} -> 11 [] c \in {"c", "C"} -> 12
      [] c \in {"d", "D"} -> 13 [] c \in {"e", "E"} -> 14 [] c \in {"f", "F"} -> 15
      [] OTHER -> 99

RECURSIVE RadixLen(_, _, _)
\* how many digits of radix r s holds from position i on
RadixLen(s, i, r) ==
    IF i <= Len(s) /\ RadixDigit(s[i]) < r THEN 1 + RadixLen(s, i + 1, r) ELSE 0

RECURSIVE RadixVal(_, _, _, _)
\* the value in radix r of the n digits of s that start at position i
RadixVal(s, i, n, r) ==
    IF n = 0 THEN 0
    ELSE r * RadixVal(s, i, n - 1, r) + RadixDigit(s[i + n - 1])

SignLen(s) == IF Len(s) >= 1 /\ s[1] \in {"-", "+"} THEN 1 ELSE 0

SignOf(s) == IF Len(s) >= 1 /\ s[1] = "-" THEN -1 ELSE 1

\* WhiteSpace and LineTerminator of ECMAScript: tab, line feed, carriage
\* return, form feed, space, vertical tab (U+000B), no-break space (U+00A0),
\* ogham space mark (U+1680) and zero width no-break space (U+FEFF).  The
\* others (U+2000 to U+200A, U+2028, U+2029, U+202F, U+205F, U+3000) are
\* characters no string of this module can hold
WhiteSpace ==
    {" ", "\t", "\n", "\r", "\f", "", " ", " ", "﻿"}

RECURSIVE TrimStart(_)
\* s without its leading white space
TrimStart(s) == IF s # <<>> /\ Head(s) \in WhiteSpace THEN TrimStart(Tail(s)) ELSE s

RECURSIVE TrimEndLen(_, _)
\* the length of the first n characters of s less their trailing white space
TrimEndLen(s, n) == IF n > 0 /\ s[n] \in WhiteSpace THEN TrimEndLen(s, n - 1) ELSE n

\* s without its trailing white space
TrimEnd(s) == SubSeq(s, 1, TrimEndLen(s, Len(s)))

\* the characters w stand in s from position i on
HasAt(s, i, w) == i + Len(w) - 1 <= Len(s) /\ SubSeq(s, i, i + Len(w) - 1) = w

RECURSIVE Pow10(_)
Pow10(k) == IF k = 0 THEN 1 ELSE 10 * Pow10(k - 1)

RECURSIVE Decimal(_, _)
\* the number m / 10^p in its one form: hundredths when two decimals are
\* enough, else without a trailing zero.  A literal below 1e-300 has no
\* value here (a double rounds it)
Decimal(m, p) ==
    CASE m = 0 -> Num(0)
      [] m # 0 /\ p < 2 -> Num(m * Pow10(2 - p))
      [] m # 0 /\ p > 2 /\ m % 10 = 0 -> Decimal(m \div 10, p - 1)
      [] m # 0 /\ p >= 2 /\ p < 300 /\ (p = 2 \/ m % 10 # 0) ->
            [t |-> "num", v |-> m, p |-> p]

RECURSIVE SigLen(_, _, _)
\* the n fraction digits of s from position i on, less their trailing zeros
SigLen(s, i, n) == IF n > 0 /\ s[i + n - 1] = "0" THEN SigLen(s, i, n - 1) ELSE n

Infinity == <<"I", "n", "f", "i", "n", "i", "t", "y">>

\* The value of a decimal literal of s: a sign of sl characters, il digits,
\* fl fraction digits, an exponent of el digits after a sign of esl
\* characters; ml characters precede the exponent
DecimalValue(s, sl, il, fl, ml, esl, el) ==
    LET exp == IF el = 0 THEN 0
               ELSE (IF esl = 1 /\ s[ml + 2] = "-" THEN -1 ELSE 1)
                        * RadixVal(s, ml + 2 + esl, el, 10)
        sf == SigLen(s, sl + il + 2, fl)
        m == RadixVal(s, sl + 1, il, 10) * Pow10(sf) + RadixVal(s, sl + il + 2, sf, 10)
    IN  [ok  |-> TRUE,
         len |-> ml + (IF el > 0 THEN 1 + esl + el ELSE 0),
         val |-> Decimal(SignOf(s) * m, sf - exp)]

\* the exponent that follows the first ml characters of s, if any: e or E, a
\* sign, digits
DecimalExponent(s, sl, il, fl, ml) ==
    LET hasE == ml + 1 <= Len(s) /\ s[ml + 1] \in {"e", "E"}
        esl == IF ml + 2 <= Len(s) /\ s[ml + 2] \in {"-", "+"} THEN 1 ELSE 0
    IN  DecimalValue(s, sl, il, fl, ml, IF hasE THEN esl ELSE 0,
                     IF hasE THEN RadixLen(s, ml + 2 + esl, 10) ELSE 0)

\* the fraction that follows the il digits of s: dl is 1 when a point follows
\* them, and fl digits follow the point; a literal has a digit somewhere
DecimalFraction(s, sl, il, dl, fl) ==
    IF il = 0 /\ fl = 0 THEN [ok |-> FALSE, len |-> 0, val |-> NaN]
    ELSE DecimalExponent(s, sl, il, fl, sl + il + dl + fl)

\* the point that follows the il digits of s, if any, and the digits after it
DecimalInteger(s, sl, il) ==
    IF sl + il + 1 <= Len(s) /\ s[sl + il + 1] = "."
    THEN DecimalFraction(s, sl, il, 1, RadixLen(s, sl + il + 2, 10))
    ELSE DecimalFraction(s, sl, il, 0, 0)

\* The longest prefix of s that is a decimal literal (StrDecimalLiteral):
\* sign, Infinity or digits with a fraction and an exponent: [ok, len, val]
DecimalPrefix(s) ==
    IF HasAt(s, SignLen(s) + 1, Infinity)
    THEN [ok |-> TRUE, len |-> SignLen(s) + 8, val |-> Inf(SignOf(s))]
    ELSE DecimalInteger(s, SignLen(s), RadixLen(s, SignLen(s) + 1, 10))

RECURSIVE NatChars(_)
\* the decimal digits of a natural number
NatChars(n) ==
    (IF n < 10 THEN <<>> ELSE NatChars(n \div 10))
        \o <<(<<"0", "1", "2", "3", "4", "5", "6", "7", "8", "9">>)[(n % 10) + 1]>>

\* the digits d with the point after the first n of them (n < 1: zeros
\* follow the point), or an exponent when more than five zeros would
PlaceDigits(d, n) ==
    IF n >= Len(d) THEN d
    ELSE IF n > 0 THEN SubSeq(d, 1, n) \o <<".">> \o SubSeq(d, n + 1, Len(d))
    ELSE IF n > -6 THEN <<"0", ".">> \o [i \in 1..(-n) |-> "0"] \o d
    ELSE <<d[1]>> \o (IF Len(d) > 1 THEN <<".">> \o SubSeq(d, 2, Len(d)) ELSE <<>>)
            \o <<"e", "-">> \o NatChars(1 - n)

RECURSIVE ReducedChars(_, _)
\* the digits of m / 10^p, m > 0, without the zeros that end its fraction
ReducedChars(m, p) ==
    IF p > 0 /\ m % 10 = 0 THEN ReducedChars(m \div 10, p - 1)
    ELSE PlaceDigits(NatChars(m), Len(NatChars(m)) - p)

\* String(x) of a number (Number::toString): the digits with the point in
\* place, or with an exponent below 1e-6
NumChars(x) ==
    IF x.v = 0 THEN <<"0">>
    ELSE IF x.v < 0 THEN <<"-">> \o ReducedChars(-x.v, x.p)
    ELSE ReducedChars(x.v, x.p)

\* String(x) for a tagged value
ToStr(x) ==
    CASE x.t = "str" -> x.c
      [] x.t = "num" -> NumChars(x)
      [] x.t = "inf" -> (IF x.sign < 0 THEN <<"-">> ELSE <<>>) \o Infinity
      [] OTHER -> <<"N", "a", "N">>

\* the integer s holds after a sign of sl characters: its digits in radix r
\* from position start on, NaN when there is none
IntegerAt(s, start, r, n) ==
    IF n = 0 THEN NaN ELSE Num(SignOf(s) * Scale * RadixVal(s, start, n, r))

\* hexadecimal digits after 0x or 0X, else decimal digits
IntegerPrefix(s, sl) ==
    IF HasAt(s, sl + 1, <<"0", "x">>) \/ HasAt(s, sl + 1, <<"0", "X">>)
    THEN IntegerAt(s, sl + 3, 16, RadixLen(s, sl + 3, 16))
    ELSE IntegerAt(s, sl + 1, 10, RadixLen(s, sl + 1, 10))

\* parseInt(x), no radix given: of the string of x, less its leading white
\* space, the longest prefix that is a sign and digits (hexadecimal digits
\* after 0x or 0X), else NaN
ParseInt(x) == IntegerPrefix(TrimStart(ToStr(x)), SignLen(TrimStart(ToStr(x))))

\* parseFloat(x): of a string, less its leading white space, its longest
\* decimal prefix, else NaN; a number is read back from its own string
ParseFloat(x) ==
    CASE x.t = "str" -> DecimalPrefix(TrimStart(x.c)).val
      [] OTHER -> x

\* the radix a literal names by its first two characters
RadixOfPrefix(s) ==
    CASE Len(s) >= 2 /\ s[1] = "0" /\ s[2] \in {"x", "X"} -> 16
      [] Len(s) >= 2 /\ s[1] = "0" /\ s[2] \in {"o", "O"} -> 8
      [] Len(s) >= 2 /\ s[1] = "0" /\ s[2] \in {"b", "B"} -> 2
      [] OTHER -> 10

\* the n digits of radix r that follow the prefix, when they end s
RadixLiteral(s, r, n) ==
    IF n > 0 /\ 2 + n = Len(s) THEN Num(Scale * RadixVal(s, 3, n, r)) ELSE NaN

\* the decimal prefix p of s, when it is all of s
WholeLiteral(s, p) == IF p.ok /\ p.len = Len(s) THEN p.val ELSE NaN

\* StringToNumber of a trimmed string
StringToNumber(s) ==
    IF Len(s) = 0 THEN Num(0)
    ELSE IF RadixOfPrefix(s) # 10
    THEN RadixLiteral(s, RadixOfPrefix(s), RadixLen(s, 3, RadixOfPrefix(s)))
    ELSE WholeLiteral(s, DecimalPrefix(s))

\* ToNumber(x), the conversion a relational operator applies to an operand:
\* of a string (StringToNumber), trimmed, 0 when empty, a literal in radix
\* 16, 8 or 2 after 0x, 0o or 0b, else a whole decimal literal, else NaN
ToNumber(x) ==
    CASE x.t = "str" -> StringToNumber(TrimEnd(TrimStart(x.c)))
      [] OTHER -> x

\* a number without a fraction
Whole(x) == x.t = "num" /\ x.p = 2 /\ x.v % Scale = 0

\* x + y: concatenation when either operand is a string, else the sum.  The
\* sum of two numbers that are not both whole is a rounded binary fraction:
\* it has no value here
JsAdd(x, y) ==
    IF x.t = "str" \/ y.t = "str" THEN Str(ToStr(x) \o ToStr(y))
    ELSE CASE x.t = "nan" \/ y.t = "nan" -> NaN
           [] x.t = "inf" /\ y.t = "inf" -> IF x.sign = y.sign THEN x ELSE NaN
           [] x.t = "inf" /\ y.t = "num" -> x
           [] x.t = "num" /\ y.t = "inf" -> y
           [] Whole(x) /\ Whole(y) -> Num(x.v + y.v)

\* if (x) for a tagged value
Truthy(x) ==
    CASE x.t = "num" -> x.v # 0
      [] x.t = "str" -> Len(x.c) > 0
      [] x.t = "inf" -> TRUE
      [] OTHER -> FALSE

\* a text field accepted whenever it is present
PresentText(b, k) == Has(b, k)

\* if (b.k) for a text field of a body or query
TruthyText(b, k) == Has(b, k) /\ b[k] # ""

\* if (b.k) for a tagged field of a body or query
TruthyVal(b, k) == Has(b, k) /\ Truthy(b[k])

\* a number or an infinity (not NaN, not a string)
IsNumber(x) == x.t \in {"num", "inf"}

\* x < y for two positive numbers: by the place of the first digit, then by
\* the digits
MagLess(x, y) ==
    LET nx == Len(NatChars(x.v)) - x.p
        ny == Len(NatChars(y.v)) - y.p
        pm == IF x.p > y.p THEN x.p ELSE y.p
    IN  IF nx # ny THEN nx < ny
        ELSE x.v * Pow10(pm - x.p) < y.v * Pow10(pm - y.p)

\* x < y on numbers and infinities
Less(x, y) ==
    CASE x.t = "inf" -> x.sign < 0 /\ ~(y.t = "inf" /\ y.sign < 0)
      [] x.t = "num" /\ y.t = "inf" -> y.sign > 0
      [] x.t = "num" /\ y.t = "num" ->
            LET sx == IF x.v > 0 THEN 1 ELSE IF x.v < 0 THEN -1 ELSE 0
                sy == IF y.v > 0 THEN 1 ELSE IF y.v < 0 THEN -1 ELSE 0
            IN  IF sx # sy THEN sx < sy
                ELSE IF sx = 0 THEN FALSE
                ELSE IF x.p = y.p THEN x.v < y.v
                ELSE IF sx = 1 THEN MagLess(x, y)
                ELSE MagLess([y EXCEPT !.v = -y.v], [x EXCEPT !.v = -x.v])

\* an exclusive bound
NumLeStrict(x, y) == IsNumber(x) /\ IsNumber(y) /\ Less(x, y)

\* x <= y, x >= y on JavaScript numbers: false when either is NaN
NumLe(x, y) == IsNumber(x) /\ IsNumber(y) /\ ~Less(y, x)

NumGe(x, y) == IsNumber(x) /\ IsNumber(y) /\ ~Less(x, y)

\* record.id === parsedId, for a stored integer id and a parseInt result
IdEq(id, x) == x = Num(id * Scale)

\* Array.prototype.slice(0, end)
Slice0(s, end) ==
    LET e == IF end.t # "num" THEN 0 ELSE end.v \div Scale
        k == IF e < 0 THEN (IF Len(s) + e < 0 THEN 0 ELSE Len(s) + e)
             ELSE IF e > Len(s) THEN Len(s) ELSE e
    IN  SubSeq(s, 1, k)

\* Array.prototype.filter
RECURSIVE SelectIdx(_, _, _)
SelectIdx(s, keep, i) ==
    IF i > Len(s) THEN <<>>
    ELSE (IF i \in keep THEN <<s[i]>> ELSE <<>>) \o SelectIdx(s, keep, i + 1)

\* Array.prototype.findIndex, given the positions whose element passes the test
\* (0 when none does; positions count from 1)
FindIdx(hits) ==
    IF hits = {} THEN 0 ELSE CHOOSE i \in hits : \A j \in hits : i <= j

\* a removal that drops the last element whatever the position (pop)
RemoveAtEnd(s, i) == SubSeq(s, 1, Len(s) - 1)

\* Array.prototype.splice(i, 1)
RemoveAt(s, i) == SubSeq(s, 1, i - 1) \o SubSeq(s, i + 1, Len(s))

Opt(k, S) == {<<>>} \cup {(k :> v) : v \in S}

RECURSIVE Text(_)
\* the text of a sequence of characters
Text(c) == IF c = <<>> THEN "" ELSE Head(c) \o Text(Tail(c))

----------------------------------------------------------------------------
(* Users service *)

SeedUsers == <<
    [id |-> 1, name |-> "John Doe", email |-> "john.doe@example.com",
     role |-> "admin", createdAt |-> 0],
    [id |-> 2, name |-> "Jane Smith", email |-> "jane.smith@example.com",
     role |-> "user", createdAt |-> 14],
    [id |-> 3, name |-> "Bob Johnson", email |-> "bob.johnson@example.com",
     role |-> "user", createdAt |-> 31] >>

FirstUserId == 4

\* a lookup that stops at the first record
EmailTakenFirstOnly(email) == Len(users) >= 1 /\ users[1].email = email

\* users.find(u => u.email === email)
EmailTaken(email) == \E i \in 1..Len(users) : users[i].email = email

\* an id taken from the length of the list, which a delete shortens
NewUserIdFromLength == Len(users) + 1

\* id: nextUserId++
NewUserId == nextUserId

\* const userId = parseInt(req.params.id);
\* users.findIndex(u => u.id === userId)
UserIndex(idp) ==
    LET UserAt(uid) == FindIdx({i \in 1..Len(users) : IdEq(users[i].id, uid)})
    IN  CHOOSE k \in {UserAt(userId) : userId \in {ParseInt(idp)}} : TRUE

UserOut(status, body, us, nid, log) ==
    [status |-> status, body |-> body, users |-> us, nextUserId |-> nid, log |-> log]

\* a response that takes an id from the counter although it stores nothing
UserKeepCounting(status, body) == UserOut(status, body, users, nextUserId + 1, userIdLog)

UserKeep(status, body) == UserOut(status, body, users, nextUserId, userIdLog)

UserNotFound(idp) ==
    UserKeep(404, [error |-> "User not found", userId |-> ParseInt(idp)])

\* app.get('/health'); timestamp and uptime are left out of the body
GetUsersHealth ==
    UserKeep(200, [status |-> "healthy", service |-> "users-service",
                   totalUsers |-> Len(users)])

\* app.get('/')
GetUsersRoot ==
    UserKeep(200, [message |-> "Users Service - User Management Microservice",
                   version |-> "1.0.0",
                   endpoints |-> [health |-> "/health", users |-> "/users",
                                  userById |-> "/users/:id"]])

\* the handler of the requests no route matches
UsersRouteNotFound(path) == UserKeep(404, [error |-> "Not found", path |-> path])

\* app.get('/users')
GetUsers(q) ==
    LET byRole == IF TruthyText(q, "role")
                  THEN SelectIdx(users, {i \in 1..Len(users) : users[i].role = q.role}, 1)
                  ELSE users
        limited == IF TruthyVal(q, "limit")
                   THEN Slice0(byRole, ParseInt(q.limit))
                   ELSE byRole
    IN  UserKeep(200, [count |-> Len(limited), users |-> limited])

\* app.get('/users/:id')
GetUserById(idp) ==
    LET i == UserIndex(idp)
    IN  IF i = 0 THEN UserNotFound(idp) ELSE UserKeep(200, users[i])

\* app.post('/users')
PostUsers(b) ==
    IF ~TruthyText(b, "name") \/ ~TruthyText(b, "email")
    THEN UserKeep(400, [error |-> "Name and email are required"])
    ELSE IF EmailTaken(b.email)
    THEN UserKeep(409, [error |-> "User with this email already exists"])
    ELSE LET newUser == [id |-> NewUserId, name |-> b.name, email |-> b.email,
                         role |-> IF TruthyText(b, "role") THEN b.role ELSE "user",
                         createdAt |-> now]
         IN  UserOut(201, [message |-> "User created successfully", user |-> newUser],
                     Append(users, newUser), nextUserId + 1,
                     Append(userIdLog, newUser.id))

\* an update that does not look for the new email in the other records
PutEmailConflictUnchecked(i, b) == FALSE

\* an email check that also counts the record being updated
PutEmailConflictOwn(i, b) == TruthyText(b, "email") /\ EmailTaken(b.email)

\* the email check of app.put('/users/:id')
PutEmailConflict(i, b) ==
    TruthyText(b, "email") /\ b.email # users[i].email /\ EmailTaken(b.email)

\* an update that writes the name before it checks the email
PutUserWritesFirst(idp, b) ==
    LET i == UserIndex(idp)
    IN  IF i = 0 THEN UserNotFound(idp)
        ELSE LET u0 == users[i]
                 u1 == IF TruthyText(b, "name") THEN [u0 EXCEPT !.name = b.name] ELSE u0
             IN  IF PutEmailConflict(i, b)
                 THEN UserOut(409, [error |-> "User with this email already exists"],
                              [users EXCEPT ![i] = u1], nextUserId, userIdLog)
                 ELSE LET u2 == IF TruthyText(b, "email")
                                THEN [u1 EXCEPT !.email = b.email] ELSE u1
                          u3 == IF TruthyText(b, "role")
                                THEN [u2 EXCEPT !.role = b.role] ELSE u2
                          u4 == Put(u3, "updatedAt", now)
                      IN  UserOut(200, [message |-> "User updated successfully",
                                        user |-> u4],
                                  [users EXCEPT ![i] = u4], nextUserId, userIdLog)

\* an update that replaces the record by the body instead of merging into it
PutUserReplaces(idp, b) ==
    LET i == UserIndex(idp)
    IN  IF i = 0 THEN UserNotFound(idp)
        ELSE IF PutEmailConflict(i, b)
        THEN UserKeep(409, [error |-> "User with this email already exists"])
        ELSE LET u == [id |-> users[i].id,
                       name |-> IF Has(b, "name") THEN b.name ELSE "",
                       email |-> IF Has(b, "email") THEN b.email ELSE "",
                       role |-> IF Has(b, "role") THEN b.role ELSE "",
                       createdAt |-> users[i].createdAt, updatedAt |-> now]
             IN  UserOut(200, [message |-> "User updated successfully", user |-> u],
                         [users EXCEPT ![i] = u], nextUserId, userIdLog)

\* app.put('/users/:id')
PutUser(idp, b) ==
    LET i == UserIndex(idp)
    IN  IF i = 0 THEN UserNotFound(idp)
        ELSE IF PutEmailConflict(i, b)
        THEN UserKeep(409, [error |-> "User with this email already exists"])
        ELSE LET u0 == users[i]
                 u1 == IF TruthyText(b, "name") THEN [u0 EXCEPT !.name = b.name] ELSE u0
                 u2 == IF TruthyText(b, "email") THEN [u1 EXCEPT !.email = b.email] ELSE u1
                 u3 == IF TruthyText(b, "role") THEN [u2 EXCEPT !.role = b.role] ELSE u2
                 u4 == Put(u3, "updatedAt", now)
             IN  UserOut(200, [message |-> "User updated successfully", user |-> u4],
                         [users EXCEPT ![i] = u4], nextUserId, userIdLog)

\* app.delete('/users/:id')
DeleteUser(idp) ==
    LET i == UserIndex(idp)
    IN  IF i = 0 THEN UserNotFound(idp)
        ELSE UserOut(200, [message |-> "User deleted successfully", user |-> users[i]],
                     RemoveAt(users, i), nextUserId, userIdLog)

RoleCount(r) == Cardinality({i \in 1..Len(users) : users[i].role = r})

\* users.slice(-5), oldest first
RecentUsersOldestFirst ==
    LET k == IF Len(users) > 5 THEN 5 ELSE Len(users)
    IN  [j \in 1..k |-> users[Len(users) - k + j]]

\* users.slice(-5).reverse()
RecentUsers ==
    LET k == IF Len(users) > 5 THEN 5 ELSE Len(users)
    IN  [j \in 1..k |-> users[Len(users) + 1 - j]]

\* app.get('/stats/users')
GetStatsUsers ==
    UserKeep(200, [total |-> Len(users),
                   byRole |-> [admin |-> RoleCount("admin"), user |-> RoleCount("user")],
                   recentUsers |-> RecentUsers])

----------------------------------------------------------------------------
(* Requests a client can send to the Users service *)

\* a role a body can carry: an empty and a non-empty string
RoleInputs == {"", "guest"}

UserBodies ==
    {n @@ e @@ r : n \in Opt("name", {"", "Alice"}),
                   e \in Opt("email", {"", "john.doe@example.com", "alice@example.com"}),
                   r \in Opt("role", RoleInputs)}

\* paths that match no route
UnknownPaths == {"/orders", "/users/1/roles"}

UserIdParams == {Str(<<"1">>), Str(<<"4">>)}

UserQueries ==
    {r @@ l : r \in Opt("role", {"admin"}),
              l \in Opt("limit", {Str(<<"2">>), Str(<<"-", "1">>), Str(<<"a">>)})}

----------------------------------------------------------------------------
(* Products service *)

SeedProducts == <<
    [id |-> 1, name |-> "Laptop Pro X1",
     description |-> "High-performance laptop for professionals",
     price |-> Num(129999), category |-> "Electronics", stock |-> Num(4500),
     createdAt |-> 9],
    [id |-> 2, name |-> "Wireless Mouse",
     description |-> "Ergonomic wireless mouse with precision tracking",
     price |-> Num(2999), category |-> "Accessories", stock |-> Num(15000),
     createdAt |-> 14],
    [id |-> 3, name |-> "USB-C Hub",
     description |-> "7-in-1 USB-C hub with HDMI, USB 3.0, and card reader",
     price |-> Num(4999), category |-> "Accessories", stock |-> Num(8000),
     createdAt |-> 31],
    [id |-> 4, name |-> "Mechanical Keyboard",
     description |-> "RGB mechanical gaming keyboard with Cherry MX switches",
     price |-> Num(15999), category |-> "Accessories", stock |-> Num(6000),
     createdAt |-> 35],
    [id |-> 5, name |-> "4K Monitor",
     description |-> "27-inch 4K IPS monitor with HDR support",
     price |-> Num(39999), category |-> "Electronics", stock |-> Num(2500),
     createdAt |-> 40] >>

FirstProductId == 6

\* The characters toLowerCase changes, of those a string of this module can
\* hold (a code point up to U+00FF, or one above it whose low byte is 80 to
\* FF), each with its lower-case character, by the case mappings of Unicode
\* 17 (the ICU of the Node 20 that runs the services); capital sigma is
\* lowered by LowerFrom
LowerOf ==
    LET upper == "ABCDEFGHIJKLMNOPQRSTUVWXYZÀÁÂÃÄÅÆÇÈÉÊËÌÍÎÏÐÑÒÓÔÕ"
                     \o "ÖØÙÚÛÜÝÞƂƄƇƋƎƑƘƠƢƤƦƧƩƬƮƯƱƲƳƵƷƸƼǄǅǇǈǊǋǍǏǑǓǕǗǙǛǞǠǢ"
                     \o "ǤǦǨǪǬǮǱǲǴǶǷǸǺǼǾΆΈΉΊΌΎΏΑΒΓΔΕΖΗΘΙΚΛΜΝΞΟΠΡΤΥΦΧΨΩΪΫϏ"
                     \o "ϘϚϜϞϠϢϤϦϨϪϬϮϴϷϹϺҀҊҌҎҐҒҔҖҘҚҜҞҠҢҤҦҨҪҬҮҰҲҴҶҸҺҼҾӀӁӃӅ"
                     \o "ӇӉӋӍӐӒӔӖӘӚӜӞӠӢӤӦӨӪӬӮӰӲӴӶӸӺӼӾᎰᎱᎲᎳᎴᎵᎶᎷᎸᎹᎺᎻᎼᎽᎾᎿᏀᏁᏂᏃ"
                     \o "ᏄᏅᏆᏇᏈᏉᏊᏋᏌᏍᏎᏏᏐᏑᏒᏓᏔᏕᏖᏗᏘᏙᏚᏛᏜᏝᏞᏟᏠᏡᏢᏣᏤᏥᏦᏧᏨᏩᏪᏫᏬᏭᏮᏯᏰᏱᏲᏳ"
                     \o "ᏴᏵᲉᲐᲑᲒᲓᲔᲕᲖᲗᲘᲙᲚᲛᲜᲝᲞᲟᲠᲡᲢᲣᲤᲥᲦᲧᲨᲩᲪᲫᲬᲭᲮᲯᲰᲱᲲᲳᲴᲵᲶᲷᲸᲹᲺᲽᲾ"
                     \o "ᲿẀẂẄẆẈẊẌẎẐẒẔẞẠẢẤẦẨẪẬẮẰẲẴẶẸẺẼẾỀỂỄỆỈỊỌỎỐỒỔỖỘỚỜỞỠỢỤ"
                     \o "ỦỨỪỬỮỰỲỴỶỸỺỼỾᾈᾉᾊᾋᾌᾍᾎᾏᾘᾙᾚᾛᾜᾝᾞᾟᾨᾩᾪᾫᾬᾭᾮᾯᾸᾹᾼῌῘῙῨῩῬῼↃ"
                     \o "ⒶⒷⒸⒹⒺⒻⒼⒽⒾⒿⓀⓁⓂⓃⓄⓅⓆⓇⓈⓉⓊⓋⓌⓍⓎⓏⲀⲂⲄⲆⲈⲊⲌⲎⲐⲒⲔⲖⲘⲚⲜⲞⲠⲢⲤⲦⲨⲪ"
                     \o "ⲬⲮⲰⲲⲴⲶⲸⲺⲼⲾⳀⳂⳄⳆⳈⳊⳌⳎⳐⳒⳔⳖⳘⳚⳜⳞⳠⳢⳫⳭⳲꚀꚂꚄꚆꚈꚊꚌꚎꚐꚒꚔꚖꚘꚚꞀꞂꞄ"
                     \o "ꞆꞋꞐꞒꞖꞘꞚꞜꞞꞠꞢꞤꞦꞨꞰꞱꞲꞴꞶꞸꞺꞼꞾꟀꟂꟄꟅꟆꟇꟉꟌ꟎Ꟑ꟒꟔ꟖꟘꟚꟜꟵ"
        lower == "abcdefghijklmnopqrstuvwxyzàáâãäåæçèéêëìíîïðñòóôõ"
                     \o "öøùúûüýþƃƅƈƌǝƒƙơƣƥʀƨʃƭʈưʊʋƴƶʒƹƽǆǆǉǉǌǌǎǐǒǔǖǘǚǜǟǡǣ"
                     \o "ǥǧǩǫǭǯǳǳǵƕƿǹǻǽǿάέήίόύώαβγδεζηθικλμνξοπρτυφχψωϊϋϗ"
                     \o "ϙϛϝϟϡϣϥϧϩϫϭϯθϸϲϻҁҋҍҏґғҕҗҙқҝҟҡңҥҧҩҫҭүұҳҵҷҹһҽҿӏӂӄӆ"
                     \o "ӈӊӌӎӑӓӕӗәӛӝӟӡӣӥӧөӫӭӯӱӳӵӷӹӻӽӿꮀꮁꮂꮃꮄꮅꮆꮇꮈꮉꮊꮋꮌꮍꮎꮏꮐꮑꮒꮓ"
                     \o "ꮔꮕꮖꮗꮘꮙꮚꮛꮜꮝꮞꮟꮠꮡꮢꮣꮤꮥꮦꮧꮨꮩꮪꮫꮬꮭꮮꮯꮰꮱꮲꮳꮴꮵꮶꮷꮸꮹꮺꮻꮼꮽꮾꮿᏸᏹᏺᏻ"
                     \o "ᏼᏽᲊაბგდევზთიკლმნოპჟრსტუფქღყშჩცძწჭხჯჰჱჲჳჴჵჶჷჸჹჺჽჾ"
                     \o "ჿẁẃẅẇẉẋẍẏẑẓẕßạảấầẩẫậắằẳẵặẹẻẽếềểễệỉịọỏốồổỗộớờởỡợụ"
                     \o "ủứừửữựỳỵỷỹỻỽỿᾀᾁᾂᾃᾄᾅᾆᾇᾐᾑᾒᾓᾔᾕᾖᾗᾠᾡᾢᾣᾤᾥᾦᾧᾰᾱᾳῃῐῑῠῡῥῳↄ"
                     \o "ⓐⓑⓒⓓⓔⓕⓖⓗⓘⓙⓚⓛⓜⓝⓞⓟⓠⓡⓢⓣⓤⓥⓦⓧⓨⓩⲁⲃⲅⲇⲉⲋⲍⲏⲑⲓⲕⲗⲙⲛⲝⲟⲡⲣⲥⲧⲩⲫ"
                     \o "ⲭⲯⲱⲳⲵⲷⲹⲻⲽⲿⳁⳃⳅⳇⳉⳋⳍⳏⳑⳓⳕⳗⳙⳛⳝⳟⳡⳣⳬⳮⳳꚁꚃꚅꚇꚉꚋꚍꚏꚑꚓꚕꚗꚙꚛꞁꞃꞅ"
                     \o "ꞇꞌꞑꞓꞗꞙꞛꞝꞟꞡꞣꞥꞧꞩʞʇʝꞵꞷꞹꞻꞽꞿꟁꟃꞔʂᶎꟈꟊꟍ꟏ꟑꟓꟕꟗꟙꟛƛꟶ"
    IN  [c \in {SubSeq(upper, i, i) : i \in 1..Len(upper)} |->
            LET i == CHOOSE i \in 1..Len(upper) : SubSeq(upper, i, i) = c
            IN  SubSeq(lower, i, i)]

\* the capital letters whose lower-case letter no string of this module can
\* hold
LowerBeyond ==
    LET upper == "ƁƆƉƊƏƐƓƔƖƗƜƝƟϽϾϿႠႡႢႣႤႥႦႧႨႩႪႫႬႭႮႯႰႱႲႳႴႵႶႷႸႹႺႻႼႽႾႿ"
                     \o "ჀჁჂჃჄჅჇჍᎠᎡᎢᎣᎤᎥᎦᎧᎨᎩᎪᎫᎬᎭᎮᎯᾺΆῈΈῊΉῚΊῪΎῸΌῺΏꞍꞪꞫꞬꞭꞮꞳꟋ"
    IN  {SubSeq(upper, i, i) : i \in 1..Len(upper)}

\* the characters that are cased (Cased) and not case-ignorable
CasedLetters ==
    LET cased == "ABCDEFGHIJKLMNOPQRSTUVWXYZabcdefghijklmnopqrstuv"
                     \o "wxyzªµºÀÁÂÃÄÅÆÇÈÉÊËÌÍÎÏÐÑÒÓÔÕÖØÙÚÛÜÝÞßàáâãäåæçèé"
                     \o "êëìíîïðñòóôõöøùúûüýþÿƀƁƂƃƄƅƆƇƈƉƊƋƌƍƎƏƐƑƒƓƔƕƖƗƘƙƚ"
                     \o "ƛƜƝƞƟƠơƢƣƤƥƦƧƨƩƪƫƬƭƮƯưƱƲƳƴƵƶƷƸƹƺƼƽƾƿǄǅǆǇǈǉǊǋǌǍǎǏ"
                     \o "ǐǑǒǓǔǕǖǗǘǙǚǛǜǝǞǟǠǡǢǣǤǥǦǧǨǩǪǫǬǭǮǯǰǱǲǳǴǵǶǷǸǹǺǻǼǽǾǿ"
                     \o "ʀʁʂʃʄʅʆʇʈʉʊʋʌʍʎʏʐʑʒʓʖʗʘʙʚʛʜʝʞʟʠʡʢʣʤʥʦʧʨʩʪʫʬʭʮʯΆΈ"
                     \o "ΉΊΌΎΏΐΑΒΓΔΕΖΗΘΙΚΛΜΝΞΟΠΡΣΤΥΦΧΨΩΪΫάέήίΰαβγδεζηθικλ"
                     \o "μνξοπρςστυφχψωϊϋόύώϏϐϑϒϓϔϕϖϗϘϙϚϛϜϝϞϟϠϡϢϣϤϥϦϧϨϩϪϫ"
                     \o "ϬϭϮϯϰϱϲϳϴϵϷϸϹϺϻϼϽϾϿҀҁҊҋҌҍҎҏҐґҒғҔҕҖҗҘҙҚқҜҝҞҟҠҡҢңҤ"
                     \o "ҥҦҧҨҩҪҫҬҭҮүҰұҲҳҴҵҶҷҸҹҺһҼҽҾҿӀӁӂӃӄӅӆӇӈӉӊӋӌӍӎӏӐӑӒӓӔ"
                     \o "ӕӖӗӘәӚӛӜӝӞӟӠӡӢӣӤӥӦӧӨөӪӫӬӭӮӯӰӱӲӳӴӵӶӷӸӹӺӻӼӽӾӿրցւփք"
                     \o "օֆևֈႠႡႢႣႤႥႦႧႨႩႪႫႬႭႮႯႰႱႲႳႴႵႶႷႸႹႺႻႼႽႾႿჀჁჂჃჄჅჇჍაბგდ"
                     \o "ევზთიკლმნოპჟრსტუფქღყშჩცძწჭხჯჰჱჲჳჴჵჶჷჸჹჺჽჾჿᎠᎡᎢᎣᎤᎥ"
                     \o "ᎦᎧᎨᎩᎪᎫᎬᎭᎮᎯᎰᎱᎲᎳᎴᎵᎶᎷᎸᎹᎺᎻᎼᎽᎾᎿᏀᏁᏂᏃᏄᏅᏆᏇᏈᏉᏊᏋᏌᏍᏎᏏᏐᏑᏒᏓᏔᏕ"
                     \o "ᏖᏗᏘᏙᏚᏛᏜᏝᏞᏟᏠᏡᏢᏣᏤᏥᏦᏧᏨᏩᏪᏫᏬᏭᏮᏯᏰᏱᏲᏳᏴᏵᏸᏹᏺᏻᏼᏽᲀᲁᲂᲃᲄᲅᲆᲇᲈᲉ"
                     \o "ᲊᲐᲑᲒᲓᲔᲕᲖᲗᲘᲙᲚᲛᲜᲝᲞᲟᲠᲡᲢᲣᲤᲥᲦᲧᲨᲩᲪᲫᲬᲭᲮᲯᲰᲱᲲᲳᲴᲵᲶᲷᲸᲹᲺᲽᲾᲿᶀ"
                     \o "ᶁᶂᶃᶄᶅᶆᶇᶈᶉᶊᶋᶌᶍᶎᶏᶐᶑᶒᶓᶔᶕᶖᶗᶘᶙᶚẀẁẂẃẄẅẆẇẈẉẊẋẌẍẎẏẐẑẒẓẔẕ"
                     \o "ẖẗẘẙẚẛẜẝẞẟẠạẢảẤấẦầẨẩẪẫẬậẮắẰằẲẳẴẵẶặẸẹẺẻẼẽẾếỀềỂểỄễ"
                     \o "ỆệỈỉỊịỌọỎỏỐốỒồỔổỖỗỘộỚớỜờỞởỠỡỢợỤụỦủỨứỪừỬửỮữỰựỲỳỴỵ"
                     \o "ỶỷỸỹỺỻỼỽỾỿᾀᾁᾂᾃᾄᾅᾆᾇᾈᾉᾊᾋᾌᾍᾎᾏᾐᾑᾒᾓᾔᾕᾖᾗᾘᾙᾚᾛᾜᾝᾞᾟᾠᾡᾢᾣᾤᾥ"
                     \o "ᾦᾧᾨᾩᾪᾫᾬᾭᾮᾯᾰᾱᾲᾳᾴᾶᾷᾸᾹᾺΆᾼιῂῃῄῆῇῈΈῊΉῌῐῑῒΐῖῗῘῙῚΊῠῡῢΰῤ"
                     \o "ῥῦῧῨῩῪΎῬῲῳῴῶῷῸΌῺΏῼↃↄⒶⒷⒸⒹⒺⒻⒼⒽⒾⒿⓀⓁⓂⓃⓄⓅⓆⓇⓈⓉⓊⓋⓌⓍⓎⓏⓐⓑ"
                     \o "ⓒⓓⓔⓕⓖⓗⓘⓙⓚⓛⓜⓝⓞⓟⓠⓡⓢⓣⓤⓥⓦⓧⓨⓩⲀⲁⲂⲃⲄⲅⲆⲇⲈⲉⲊⲋⲌⲍⲎⲏⲐⲑⲒⲓⲔⲕⲖⲗ"
                     \o "ⲘⲙⲚⲛⲜⲝⲞⲟⲠⲡⲢⲣⲤⲥⲦⲧⲨⲩⲪⲫⲬⲭⲮⲯⲰⲱⲲⲳⲴⲵⲶⲷⲸⲹⲺⲻⲼⲽⲾⲿⳀⳁⳂⳃⳄⳅⳆⳇ"
                     \o "ⳈⳉⳊⳋⳌⳍⳎⳏⳐⳑⳒⳓⳔⳕⳖⳗⳘⳙⳚⳛⳜⳝⳞⳟⳠⳡⳢⳣⳤⳫⳬⳭⳮⳲⳳꚀꚁꚂꚃꚄꚅꚆꚇꚈꚉꚊꚋꚌ"
                     \o "ꚍꚎꚏꚐꚑꚒꚓꚔꚕꚖꚗꚘꚙꚚꚛꞀꞁꞂꞃꞄꞅꞆꞇꞋꞌꞍꞎꞐꞑꞒꞓꞔꞕꞖꞗꞘꞙꞚꞛꞜꞝꞞꞟꞠꞡꞢꞣꞤ"
                     \o "ꞥꞦꞧꞨꞩꞪꞫꞬꞭꞮꞯꞰꞱꞲꞳꞴꞵꞶꞷꞸꞹꞺꞻꞼꞽꞾꞿꟀꟁꟂꟃꟄꟅꟆꟇꟈꟉꟊꟋꟌꟍ꟎꟏Ꟑꟑ꟒ꟓ꟔"
                     \o "ꟕꟖꟗꟘꟙꟚꟛꟜꟵꟶꟺꮀꮁꮂꮃꮄꮅꮆꮇꮈꮉꮊꮋꮌꮍꮎꮏꮐꮑꮒꮓꮔꮕꮖꮗꮘꮙꮚꮛꮜꮝꮞꮟꮠꮡꮢꮣꮤ"
                     \o "ꮥꮦꮧꮨꮩꮪꮫꮬꮭꮮꮯꮰꮱꮲꮳꮴꮵꮶꮷꮸꮹꮺꮻꮼꮽꮾꮿ"
    IN  {SubSeq(cased, i, i) : i \in 1..Len(cased)}

\* the characters that are case-ignorable (Case_Ignorable)
CaseIgnorable ==
    LET ignorable == "'.:^¨­¯´·¸ʰʱʲʳʴʵʶʷʸʹʺʻʼʽʾʿˀˁ˂˃˄˅ˆˇˈˉˊˋˌˍˎˏːˑ˒˓˔˕"
                         \o "˖˗˘˙˚˛˜˝˞˟ˠˡˢˣˤ˥˦˧˨˩˪˫ˬ˭ˮ˯˰˱˲˳˴˵˶˷˸˹˺˻˼˽˾˿΄΅·҃҄҅"
                         \o "҆҇҈҉ְֱֲֳִֵֶַָֹֺֻּ֑֖֛֢֣֤֥֦֧֪֚֭֮֒֓֔֕֗֘֙֜֝֞֟֠֡֨֩֫֬֯"
                         \o "ׇֽֿׁׂׅׄ״ۖۗۘۙۚۛۜ۝ۣ۟۠ۡۢۤۥۦ۪ۭۧۨ۫۬ަާިީުޫެޭޮޯް߫߬߭߮߯߰߱"
                         \o "߲߳ߴߵߺ߽࢈࢐࢑࢙࢚࢛ࢗ࢘࢜࢝࢞࢟ࣉ࣏࣐࣑࣒࣓࣊࣋࣌࣍࣎ࣔࣕࣖࣗࣘࣙࣚࣛࣜࣝࣞࣟ࣠࣡࣢ࣣࣦࣤࣥ"
                         \o "ࣰࣱࣲࣩ࣭࣮࣯ࣶࣹࣺࣧࣨ࣪࣫࣬ࣳࣴࣵࣷࣸࣻࣼࣽࣾࣿঁ়ুূৃৄ্ৢৣ৾ઁં઼ુૂૃૄૅેૈ્ૢૣ"
                         \o "ૺૻૼ૽૾૿ஂீ்ಁ಼ಿೆೌ್ೢೣඁ්ිීුූັິີຶື຺ຸູົຼໆ່້໊໋໌ໍ໎྄ཱྀྀྂྃ྆྇"
                         \o "ྍྎྏྐྑྒྒྷྔྕྖྗྙྚྛྜྜྷྞྟྠྡྡྷྣྤྥྦྦྷྨྩྪྫྫྷྭྮྯྰྱྲླྴྵྶྷྸྐྵྺྻྼ࿆"
                         \o "ႂႅႆႍႝჼ឴឵ិីឹឺុូួំ៉៊់៌៍៎៏័៑្៓ៗ៝ᢅᢆᢩᪧ᪵᪶᪷᪸᪹᪺᪽᪰᪱᪲᪳᪴᪻᪼᪾"
                         \o "ᪿᫀ᫃᫄᫊᫁᫂᫅᫆᫇᫈᫉᫋ᫌᫍᫎ᫏᫐᫑᫒᫓᫔᫕᫖᫗᫘᫙᫚᫛᫜᫝᫠᫡᫢᫣᫤᫥᫦᫧᫨᫩᫪᫫ᮀᮁᮢᮣᮤ"
                         \o "ᮥᮨᮩ᮫ᮬᮭ᯦ᯨᯩᯭᯯᯰᯱ᳔᳢᳣᳤᳥᳦᳧᳨᳕᳖᳗᳘᳙᳜᳝᳞᳟᳭᳐᳑᳒᳚᳛᳠᳴᳸᳹ᶛᶜᶝᶞᶟᶠᶡᶢ"
                         \o "ᶣᶤᶥᶦᶧᶨᶩᶪᶫᶬᶭᶮᶯᶰᶱᶲᶳᶴᶵᶶᶷᶸᶹᶺᶻᶼᶽᶾᶿ᷐᷎᷂᷊᷏᷀᷁᷃᷄᷅᷆᷇᷈᷉᷋᷌᷑᷒᷍"
                         \o "᷺᷹᷽᷿᷷᷸ᷓᷔᷕᷖᷗᷘᷙᷚᷛᷜᷝᷞᷟᷠᷡᷢᷣᷤᷥᷦᷧᷨᷩᷪᷫᷬᷭᷮᷯᷰᷱᷲᷳᷴ᷵᷻᷾᷶᷼᾽᾿῀"
                         \o "῁῍῎῏῝῞῟῭΅`´῾ₐₑₒₓₔₕₖₗₘₙₚₛₜ⃒⃓⃘⃙⃚⃐⃑⃔⃕⃖⃗⃛⃜⃝⃞⃟⃠⃡⃢⃣⃤⃥⃦"
                         \o "⃪⃫゙゚⃨⃬⃭⃮⃯⃧⃩⃰⳯⳰⳱ⷠⷡⷢⷣⷤⷥⷦⷧⷨⷩⷪⷫⷬⷭⷮⷯⷰⷱⷲⷳⷴⷵⷶⷷⷸⷹⷺⷻⷼⷽⷾⷿ゛"
                         \o "゜ゝゞーヽヾꓸꓹꓺꓻꓼꓽꚜꚝꚞꚟ꛰꛱ꞈ꞉꞊꟱ꟲꟳꟴꟸꟹ꣄ꣅ꣠꣡꣢꣣꣤꣥꣦꣧꣨꣩꣪꣫꣬꣭꣮꣯꣰꣱ꣿ"
                         \o "ꦀꦁꦂ꦳ꦶꦷꦸꦹꦼꦽꧏꧥꧦꪴꪰꪲꪳꪷꪸꪾ꪿꫁ꫝꫬꫭꫳꫴ꫶ꯥꯨ꯭﮲﮳﮴﮵﮶﮷﮸﮹﮺﮻﮼﮽﮾﮿﯀﯁﯂"
                         \o "﻿ﾞﾟ￣￹￺￻"
    IN  {SubSeq(ignorable, i, i) : i \in 1..Len(ignorable)}

\* Final_Sigma: the character at position i of s comes after a cased letter
\* and before none, case-ignorable characters between them skipped
FinalSigma(s, i) ==
    /\ \E j \in 1..(i - 1) :
          /\ SubSeq(s, j, j) \in CasedLetters
          /\ \A k \in (j + 1)..(i - 1) : SubSeq(s, k, k) \in CaseIgnorable
    /\ ~\E j \in (i + 1)..Len(s) :
          /\ SubSeq(s, j, j) \in CasedLetters
          /\ \A k \in (i + 1)..(j - 1) : SubSeq(s, k, k) \in CaseIgnorable

\* the lower-case character of a character that stands alone; that of a
\* letter of LowerBeyond has no value here
LowerChar(c) ==
    CASE c \in DOMAIN LowerOf -> LowerOf[c]
      [] c = "Σ" -> "σ"
      [] c \notin DOMAIN LowerOf /\ c # "Σ" /\ c \notin LowerBeyond -> c

RECURSIVE LowerFrom(_, _)
\* the characters of s from position i on, each in lower case: a capital
\* sigma that ends a word becomes the final sigma
LowerFrom(s, i) ==
    IF i > Len(s) THEN ""
    ELSE LET c == SubSeq(s, i, i)
         IN  (IF c = "Σ" /\ FinalSigma(s, i) THEN "ς" ELSE LowerChar(c))
             \o LowerFrom(s, i + 1)

\* String.prototype.toLowerCase of a text, character by character
ToLowerCase(s) == LowerFrom(s, 1)

\* String.prototype.includes
Includes(text, term) ==
    \E i \in 1..(Len(text) - Len(term) + 1) : SubSeq(text, i, i + Len(term) - 1) = term

\* id: nextProductId++
NewProductId == nextProductId

\* products.findIndex(p => p.id === parseInt(req.params.id))
ProductIndex(idp) ==
    LET pid == ParseInt(idp) IN FindIdx({i \in 1..Len(products) : IdEq(products[i].id, pid)})

ProductOut(status, body, ps, nid, log) ==
    [status |-> status, body |-> body, products |-> ps, nextProductId |-> nid,
     log |-> log]

ProductKeep(status, body) ==
    ProductOut(status, body, products, nextProductId, productIdLog)

ProductNotFound(idp) ==
    ProductKeep(404, [error |-> "Product not found", productId |-> ParseInt(idp)])

\* a create that does not validate the price
PriceNeverRejected(price) == FALSE

\* price <= 0
PriceNotPositive(price) == NumLe(ToNumber(price), Num(0))

\* app.get('/health'); timestamp and uptime are left out of the body
GetProductsHealth ==
    ProductKeep(200, [status |-> "healthy", service |-> "products-service",
                      totalProducts |-> Len(products)])

\* app.get('/')
GetProductsRoot ==
    ProductKeep(200, [message |-> "Products Service - Product Catalog Microservice",
                      version |-> "1.0.0",
                      endpoints |-> [health |-> "/health", products |-> "/products",
                                     productById |-> "/products/:id",
                                     categories |-> "/categories",
                                     search |-> "/products/search"]])

\* the handler of the requests no route matches
ProductsRouteNotFound(path) == ProductKeep(404, [error |-> "Not found", path |-> path])

\* app.get('/search')
GetSearch(q) ==
    IF ~TruthyText(q, "q")
    THEN ProductKeep(400, [error |-> "Search query is required",
                           usage |-> "/search?q=laptop"])
    ELSE LET searchTerm == ToLowerCase(q.q)
             hits == {i \in 1..Len(products) :
                        \/ Includes(ToLowerCase(products[i].name), searchTerm)
                        \/ Includes(ToLowerCase(products[i].description), searchTerm)
                        \/ Includes(ToLowerCase(products[i].category), searchTerm)}
             results == SelectIdx(products, hits, 1)
         IN  ProductKeep(200, [query |-> q.q, count |-> Len(results),
                               products |-> results])

\* app.get('/products')
GetProducts(q) ==
    LET n == Len(products)
        byCat == IF TruthyText(q, "category")
                 THEN LET wanted == ToLowerCase(q.category)
                      IN  {i \in 1..n : ToLowerCase(products[i].category) = wanted}
                 ELSE 1..n
        byMin == IF TruthyVal(q, "minPrice")
                 THEN LET lo == ParseFloat(q.minPrice)
                      IN  {i \in byCat : NumGe(products[i].price, lo)}
                 ELSE byCat
        byMax == IF TruthyVal(q, "maxPrice")
                 THEN LET hi == ParseFloat(q.maxPrice)
                      IN  {i \in byMin : NumLe(products[i].price, hi)}
                 ELSE byMin
        filtered == SelectIdx(products, byMax, 1)
        limited == IF TruthyVal(q, "limit")
                   THEN Slice0(filtered, ParseInt(q.limit))
                   ELSE filtered
    IN  ProductKeep(200, [count |-> Len(limited), products |-> limited])

\* app.get('/products/:id')
GetProductById(idp) ==
    LET i == ProductIndex(idp)
    IN  IF i = 0 THEN ProductNotFound(idp) ELSE ProductKeep(200, products[i])

\* app.post('/products')
PostProducts(b) ==
    IF ~TruthyText(b, "name") \/ ~TruthyVal(b, "price") \/ ~TruthyText(b, "category")
    THEN ProductKeep(400, [error |-> "Name, price, and category are required"])
    ELSE IF PriceNotPositive(b.price)
    THEN ProductKeep(400, [error |-> "Price must be greater than 0"])
    ELSE LET newProduct ==
                 [id |-> NewProductId, name |-> b.name,
                  description |-> IF TruthyText(b, "description")
                                  THEN b.description ELSE "",
                  price |-> ParseFloat(b.price), category |-> b.category,
                  stock |-> IF TruthyVal(b, "stock") THEN b.stock ELSE Num(0),
                  createdAt |-> now]
         IN  ProductOut(201, [message |-> "Product created successfully",
                              product |-> newProduct],
                        Append(products, newProduct), nextProductId + 1,
                        Append(productIdLog, newProduct.id))

\* price !== undefined && price <= 0
PutPriceRejected(b) == Has(b, "price") /\ PriceNotPositive(b.price)

\* app.put('/products/:id')
PutProduct(idp, b) ==
    LET i == ProductIndex(idp)
    IN  IF i = 0 THEN ProductNotFound(idp)
        ELSE IF PutPriceRejected(b)
        THEN ProductKeep(400, [error |-> "Price must be greater than 0"])
        ELSE LET p0 == products[i]
                 p1 == IF TruthyText(b, "name") THEN [p0 EXCEPT !.name = b.name] ELSE p0
                 p2 == IF Has(b, "description")
                       THEN [p1 EXCEPT !.description = b.description] ELSE p1
                 p3 == IF TruthyVal(b, "price")
                       THEN [p2 EXCEPT !.price = ParseFloat(b.price)] ELSE p2
                 p4 == IF TruthyText(b, "category")
                       THEN [p3 EXCEPT !.category = b.category] ELSE p3
                 p5 == IF Has(b, "stock")
                       THEN [p4 EXCEPT !.stock = ParseInt(b.stock)] ELSE p4
                 p6 == Put(p5, "updatedAt", now)
             IN  ProductOut(200, [message |-> "Product updated successfully",
                                  product |-> p6],
                            [products EXCEPT ![i] = p6], nextProductId, productIdLog)

\* app.delete('/products/:id')
DeleteProduct(idp) ==
    LET i == ProductIndex(idp)
    IN  IF i = 0 THEN ProductNotFound(idp)
        ELSE ProductOut(200, [message |-> "Product deleted successfully",
                              product |-> products[i]],
                        RemoveAt(products, i), nextProductId, productIdLog)

\* a stock update that adds the quantity to the stock instead of replacing it
PatchStockRelative(idp, b) ==
    LET i == ProductIndex(idp)
    IN  IF i = 0 THEN ProductNotFound(idp)
        ELSE IF ~Has(b, "quantity")
        THEN ProductKeep(400, [error |-> "Quantity is required"])
        ELSE LET q == ParseInt(b.quantity)
                 s == products[i].stock
                 sum == IF q.t = "num" /\ s.t = "num" THEN Num(s.v + q.v) ELSE NaN
                 p1 == [products[i] EXCEPT !.stock = sum]
                 p2 == Put(p1, "updatedAt", now)
             IN  ProductOut(200, [message |-> "Stock updated successfully",
                                  product |-> p2],
                            [products EXCEPT ![i] = p2], nextProductId, productIdLog)

\* app.patch('/products/:id/stock')
PatchStock(idp, b) ==
    LET i == ProductIndex(idp)
    IN  IF i = 0 THEN ProductNotFound(idp)
        ELSE IF ~Has(b, "quantity")
        THEN ProductKeep(400, [error |-> "Quantity is required"])
        ELSE LET p1 == [products[i] EXCEPT !.stock = ParseInt(b.quantity)]
                 p2 == Put(p1, "updatedAt", now)
             IN  ProductOut(200, [message |-> "Stock updated successfully",
                                  product |-> p2],
                            [products EXCEPT ![i] = p2], nextProductId, productIdLog)

RECURSIVE ReduceStock(_, _, _)
\* products.reduce((sum, p) => sum + p.stock, 0), from position i on
ReduceStock(ps, i, sum) ==
    IF i > Len(ps) THEN sum ELSE ReduceStock(ps, i + 1, JsAdd(sum, ps[i].stock))

\* stats.byCategory: for each category of the store, the number of its
\* products.  The assignment stats.byCategory["__proto__"] = n reaches the
\* setter of Object.prototype, which ignores a number: the object gets no
\* such key
CategoryCounts ==
    [c \in {products[i].category : i \in 1..Len(products)} \ {"__proto__"} |->
        Cardinality({i \in 1..Len(products) : products[i].category = c})]

\* app.get('/categories'): the categories in the order of their first product;
\* averagePrice is left out of the entries
GetCategories ==
    LET n == Len(products)
        firsts == {i \in 1..n : \A j \in 1..(i - 1) :
                                    products[j].category # products[i].category}
        stats == [i \in 1..n |-> [name |-> products[i].category,
                                  count |-> Cardinality({j \in 1..n :
                                      products[j].category = products[i].category})]]
        categoryStats == SelectIdx(stats, firsts, 1)
    IN  ProductKeep(200, [count |-> Len(categoryStats), categories |-> categoryStats])

\* app.get('/stats/products'); totalValue and averagePrice, floating-point
\* numbers formatted by toFixed(2), are left out of the body
GetStatsProducts ==
    ProductKeep(200, [total |-> Len(products),
                      totalStock |-> ReduceStock(products, 1, Num(0)),
                      byCategory |-> CategoryCounts])

----------------------------------------------------------------------------
(* Requests a client can send to the Products service *)

PriceInputs == {Num(0), Num(-500), Num(1000), Str(<<"a", "b", "c">>)}

ProductPostBodies ==
    {n @@ p @@ c @@ s :
        n \in Opt("name", {"Pen"}), p \in Opt("price", PriceInputs),
        c \in Opt("category", {"Café"}), s \in Opt("stock", {Num(-300)})}

\* a body that supplies one field, or none
ProductPutField ==
    Opt("name", {"", "Pen"}) \cup Opt("description", {""}) \cup Opt("price", PriceInputs)
        \cup Opt("category", {""}) \cup Opt("stock", {Num(0), Num(-300)})

\* bodies that supply at most two fields
ProductPutBodies == {a @@ b : a \in ProductPutField, b \in ProductPutField}

StockBodies == Opt("quantity", {Num(0), Str(<<"-", "3">>)})

\* bodies of a create whose stock is absent, a number or a string
StockedPostBodies ==
    {[name |-> "Pen", price |-> Num(1000), category |-> "Office"] @@ s :
        s \in Opt("stock", {Num(700), Str(<<"5">>)})}

\* integer quantities: zero, positive, negative
QuantityInputs == {Num(0), Num(700), Num(-300)}

SearchQueries == Opt("q", {"", "laptop"})

ProductIdParams == {Str(<<"1">>), Str(<<"6">>)}

ProductQueries ==
    {c @@ a @@ b @@ l :
        c \in Opt("category", {"ACCESSORIES"}),
        a \in Opt("minPrice", {Str(<<"0">>), Str(<<"4", "9", ".", "9", "9">>)}),
        b \in Opt("maxPrice", {Str(<<"1", "5", "9", ".", "9", "9">>)}),
        l \in Opt("limit", {Str(<<"2">>)})}

\* queries with both bounds whose category is written in another case than
\* the stored one, or differs from a stored one by a letter
CasedCategoryQueries ==
    {[category |-> c, minPrice |-> Str(<<"0">>),
      maxPrice |-> Str(<<"1", "5", "9", ".", "9", "9">>)] :
        c \in {"accessories", "eLECTRONICS", "Accessory", "CAFÉ", "Cafe"}}

----------------------------------------------------------------------------
(* A service handles one direct request, start to end *)

NoBody == <<>>

NoId == Str(<<>>)

Response(route, out) == [route |-> route, status |-> out.status]

UsersServe(route, out) ==
    /\ svc = "users"
    /\ users' = out.users
    /\ nextUserId' = out.nextUserId
    /\ userIdLog' = out.log
    /\ resp' = Response(route, out)
    /\ UNCHANGED <<products, nextProductId, productIdLog, now, svc, gw>>

DoGetUsers == \E q \in UserQueries : UsersServe("GET /users", GetUsers(q))

DoGetUserById == \E idp \in UserIdParams : UsersServe("GET /users/:id", GetUserById(idp))

DoPostUsers ==
    \E b \in UserBodies :
        /\ svc = "users"
        /\ PostUsers(b).status = 201 => nextUserId < FirstUserId + MaxCreates
        /\ UsersServe("POST /users", PostUsers(b))

NewPostUsers ==
    \E b \in {[name |-> "Alice", email |-> e] :
                e \in {"alice@example.com", "bob@example.com", "carol@example.com",
                       "dave@example.com"}} :
        /\ svc = "users"
        /\ PostUsers(b).status = 201 => nextUserId < FirstUserId + MaxStatsCreates
        /\ UsersServe("POST /users", PostUsers(b))

DoPutUser ==
    \E idp \in UserIdParams, b \in UserBodies :
        UsersServe("PUT /users/:id", PutUser(idp, b))

DoDeleteUser ==
    \E idp \in UserIdParams : UsersServe("DELETE /users/:id", DeleteUser(idp))

DoGetStatsUsers == UsersServe("GET /stats/users", GetStatsUsers)

ProductsServe(route, out) ==
    /\ svc = "products"
    /\ products' = out.products
    /\ nextProductId' = out.nextProductId
    /\ productIdLog' = out.log
    /\ resp' = Response(route, out)
    /\ UNCHANGED <<users, nextUserId, userIdLog, now, svc, gw>>

DoGetProducts == \E q \in ProductQueries : ProductsServe("GET /products", GetProducts(q))

DoGetProductById ==
    \E idp \in ProductIdParams : ProductsServe("GET /products/:id", GetProductById(idp))

DoPostProducts ==
    \E b \in ProductPostBodies :
        /\ svc = "products"
        /\ PostProducts(b).status = 201 => nextProductId < FirstProductId + MaxCreates
        /\ ProductsServe("POST /products", PostProducts(b))

\* an update of one field, or of none; an update of several fields is checked
\* as a function of its body (ProductPutBodies)
DoPutProduct ==
    \E idp \in ProductIdParams, b \in ProductPutField :
        ProductsServe("PUT /products/:id", PutProduct(idp, b))

DoDeleteProduct ==
    \E idp \in ProductIdParams :
        ProductsServe("DELETE /products/:id", DeleteProduct(idp))

DoPatchStock ==
    \E idp \in ProductIdParams, b \in StockBodies :
        ProductsServe("PATCH /products/:id/stock", PatchStock(idp, b))

DoGetStatsProducts == ProductsServe("GET /stats/products", GetStatsProducts)

StockedPostProducts ==
    \E b \in StockedPostBodies :
        /\ svc = "products"
        /\ PostProducts(b).status = 201 => nextProductId < FirstProductId + MaxCreates
        /\ ProductsServe("POST /products", PostProducts(b))

----------------------------------------------------------------------------
(* API gateway.  Every handler is: send one request to a backend with     *)
(* axios and await it; then either relay the data (the promise resolved:   *)
(* the backend answered 2xx) or run the catch block (it rejected: the      *)
(* backend answered another status, or did not answer).  A handler holds   *)
(* no state of the gateway; what it awaits is kept per client in gw.       *)

Clients == {"c1", "c2"}

Req(route, idp, q, b) == [route |-> route, id |-> idp, query |-> q, body |-> b]

ByIdRoutes ==
    {"GET /api/users/:id", "PUT /api/users/:id", "DELETE /api/users/:id",
     "GET /api/products/:id", "PUT /api/products/:id", "DELETE /api/products/:id"}

UserRoutes ==
    {"GET /api/users", "GET /api/users/:id", "POST /api/users", "PUT /api/users/:id",
     "DELETE /api/users/:id"}

\* the backend a route calls: USERS_SERVICE_URL or PRODUCTS_SERVICE_URL
GwBackend(route) == IF route \in UserRoutes THEN "users" ELSE "products"

\* an id that is one path segment, of characters that stand in a URL path as
\* they are
OneSegment(c) ==
    /\ Len(c) > 0
    /\ \A i \in 1..Len(c) :
        c[i] \in Digits \cup {"-", "_"}
            \cup {"a", "b", "c", "d", "e", "f", "g", "h", "i", "j", "k", "l", "m", "n",
                  "o", "p", "q", "r", "s", "t", "u", "v", "w", "x", "y", "z"}
            \cup {"A", "B", "C", "D", "E", "F", "G", "H", "I", "J", "K", "L", "M", "N",
                  "O", "P", "Q", "R", "S", "T", "U", "V", "W", "X", "Y", "Z"}

\* an id that holds several path segments ("1/roles")
SeveralSegments(c) ==
    /\ \E i \in 1..Len(c) : c[i] = "/"
    /\ OneSegment(SelectSeq(c, LAMBDA x : x # "/"))
    /\ c[1] # "/" /\ c[Len(c)] # "/"
    /\ \A i \in 1..(Len(c) - 1) : ~(c[i] = "/" /\ c[i + 1] = "/")

UsersPrefix == <<"/", "u", "s", "e", "r", "s", "/">>

ProductsPrefix == <<"/", "p", "r", "o", "d", "u", "c", "t", "s", "/">>

\* the request a by-id handler sends: the id is written into the path of the
\* URL, `${USERS_SERVICE_URL}/users/${req.params.id}`, and the backend routes
\* on that path: an id of several segments gives a path no route matches.
\* An id with other characters (?, #, %, a dot segment, a final slash, white
\* space) has no request here
GwByIdOutbound(route, prefix, r, b) ==
    CASE OneSegment(r.id.c) -> Req(route, r.id, NoBody, b)
      [] SeveralSegments(r.id.c) ->
            Req(IF prefix = UsersPrefix THEN "no route of users"
                ELSE "no route of products", Str(prefix \o r.id.c), NoBody, b)

\* the request a handler sends to its backend: axios.get(url), axios.post(url, req.body), ...
GwOutbound(r) ==
    CASE r.route = "GET /api/users" -> Req("GET /users", NoId, NoBody, NoBody)
      [] r.route = "GET /api/users/:id" ->
            GwByIdOutbound("GET /users/:id", UsersPrefix, r, NoBody)
      [] r.route = "POST /api/users" -> Req("POST /users", NoId, NoBody, r.body)
      [] r.route = "PUT /api/users/:id" ->
            GwByIdOutbound("PUT /users/:id", UsersPrefix, r, r.body)
      [] r.route = "DELETE /api/users/:id" ->
            GwByIdOutbound("DELETE /users/:id", UsersPrefix, r, NoBody)
      [] r.route = "GET /api/products" -> Req("GET /products", NoId, NoBody, NoBody)
      [] r.route = "GET /api/products/:id" ->
            GwByIdOutbound("GET /products/:id", ProductsPrefix, r, NoBody)
      [] r.route = "POST /api/products" -> Req("POST /products", NoId, NoBody, r.body)
      [] r.route = "PUT /api/products/:id" ->
            GwByIdOutbound("PUT /products/:id", ProductsPrefix, r, r.body)
      [] r.route = "DELETE /api/products/:id" ->
            GwByIdOutbound("DELETE /products/:id", ProductsPrefix, r, NoBody)

\* only the GET handlers test for 404
GwTranslates404OnGetOnly(route) ==
    route \in {"GET /api/users/:id", "GET /api/products/:id"}

\* the catch blocks that test error.response.status === 404
GwTranslates404(route) == route \in ByIdRoutes

GwFailText(route) ==
    CASE route = "GET /api/users" -> "Failed to fetch users"
      [] route = "GET /api/users/:id" -> "Failed to fetch user"
      [] route = "POST /api/users" -> "Failed to create user"
      [] route = "PUT /api/users/:id" -> "Failed to update user"
      [] route = "DELETE /api/users/:id" -> "Failed to delete user"
      [] route = "GET /api/products" -> "Failed to fetch products"
      [] route = "GET /api/products/:id" -> "Failed to fetch product"
      [] route = "POST /api/products" -> "Failed to create product"
      [] route = "PUT /api/products/:id" -> "Failed to update product"
      [] route = "DELETE /api/products/:id" -> "Failed to delete product"

\* a call that resolves whatever the status (validateStatus: () => true)
ResolvesAnyStatus(reply) == reply.kind = "response"

\* axios resolves when the backend's status is 2xx and rejects otherwise
Resolves(reply) == reply.kind = "response" /\ reply.status >= 200 /\ reply.status < 300

\* error.message of a rejected call
ErrorMessage(reply) ==
    IF reply.kind = "response"
    THEN [text |-> "Request failed with status code", code |-> reply.status]
    ELSE [text |-> "connect ECONNREFUSED", code |-> 0]

\* what a handler sends to its client once the awaited call has settled
GwRespond(route, reply) ==
    IF Resolves(reply)
    THEN [status |-> IF route \in {"POST /api/users", "POST /api/products"}
                     THEN 201 ELSE 200,
          body |-> reply.data]
    ELSE IF GwTranslates404(route) /\ reply.kind = "response" /\ reply.status = 404
    THEN [status |-> 404,
          body |-> [error |-> IF GwBackend(route) = "users"
                              THEN "User not found" ELSE "Product not found"]]
    ELSE [status |-> 500,
          body |-> [error |-> GwFailText(route), message |-> ErrorMessage(reply)]]

\* response.data: the body the backend passed to res.json, as it arrives
\* through JSON.stringify and JSON.parse.  NaN and the infinities, which JSON
\* cannot write, arrive as null
Json(body) ==
    LET Wire(x) == IF x.t \in {"nan", "inf"} THEN [t |-> "null"] ELSE x
        Fields(r) == [k \in DOMAIN r |->
                        IF k \in {"userId", "productId", "price", "stock"}
                        THEN Wire(r[k]) ELSE r[k]]
    IN  [k \in DOMAIN body |->
            CASE k = "product" -> Fields(body[k])
              [] k = "products" -> [i \in DOMAIN body[k] |-> Fields(body[k][i])]
              [] OTHER -> Fields(body)[k]]

\* the backend's handler for a request the gateway sent
BackendResult(o) ==
    CASE o.route = "GET /users" -> GetUsers(o.query)
      [] o.route = "GET /users/:id" -> GetUserById(o.id)
      [] o.route = "POST /users" -> PostUsers(o.body)
      [] o.route = "PUT /users/:id" -> PutUser(o.id, o.body)
      [] o.route = "DELETE /users/:id" -> DeleteUser(o.id)
      [] o.route = "GET /products" -> GetProducts(o.query)
      [] o.route = "GET /products/:id" -> GetProductById(o.id)
      [] o.route = "POST /products" -> PostProducts(o.body)
      [] o.route = "PUT /products/:id" -> PutProduct(o.id, o.body)
      [] o.route = "DELETE /products/:id" -> DeleteProduct(o.id)
      [] o.route = "no route of users" -> UsersRouteNotFound(Text(o.id.c))
      [] o.route = "no route of products" -> ProductsRouteNotFound(Text(o.id.c))

NoReply == [kind |-> "none"]

NoRes == [status |-> 0]

\* sent counts the calls a handler has made to its backend for the request
\* it serves, answered the responses it has sent to its client
Idle == [pc |-> "idle", req |-> Req("none", NoId, NoBody, NoBody),
         out |-> Req("none", NoId, NoBody, NoBody), reply |-> NoReply, res |-> NoRes,
         sent |-> 0, answered |-> 0]

(* Requests a client can send to the gateway *)

GwRequests ==
    {Req("GET /api/users", NoId, q, NoBody) : q \in {NoBody, [role |-> "admin"]}}
    \cup {Req("GET /api/users/:id", idp, NoBody, NoBody) :
            idp \in {Str(<<"1">>), Str(<<"1", "/", "x">>)}}
    \cup {Req("POST /api/users", NoId, NoBody, b) :
            b \in {[name |-> "Alice", email |-> "alice@example.com"],
                   [email |-> "alice@example.com"]}}
    \cup {Req("PUT /api/users/:id", Str(<<"1">>), NoBody, b) :
            b \in {[email |-> "jane.smith@example.com"], [role |-> "guest"]}}
    \cup {Req("DELETE /api/users/:id", Str(<<"1">>), NoBody, NoBody)}
    \cup {Req("GET /api/products", NoId, q, NoBody) :
        q \in {NoBody, [category |-> "ACCESSORIES"]}}
    \cup {Req("GET /api/products/:id", Str(<<"1">>), NoBody, NoBody)}
    \cup {Req("POST /api/products", NoId, NoBody, b) :
            b \in {[name |-> "Pen", price |-> Num(1000), category |-> "Office"],
                   [name |-> "Pen", price |-> Num(0), category |-> "Office"]}}
    \cup {Req("PUT /api/products/:id", Str(<<"1">>), NoBody, b) :
            b \in {[price |-> Num(0)], [stock |-> Num(0)]}}
    \cup {Req("DELETE /api/products/:id", Str(<<"1">>), NoBody, NoBody)}

\* a handler starts: it sends its request to the backend and awaits the answer
GwReceive(c) ==
    \E r \in GwRequests :
        /\ gw[c].pc \in {"idle", "done"}
        /\ GwBackend(r.route) = svc
        /\ gw' = [gw EXCEPT ![c] = [pc |-> "awaiting", req |-> r, out |-> GwOutbound(r),
                                    reply |-> NoReply, res |-> NoRes,
                                    sent |-> 1, answered |-> 0]]
        /\ UNCHANGED <<users, nextUserId, userIdLog, products, nextProductId,
                       productIdLog, now, svc, resp>>

\* the backend handles the request, start to end, and answers
BackendHandle(c) ==
    /\ gw[c].pc = "awaiting"
    /\ \E out \in {BackendResult(gw[c].out)} :
        /\ out.status = 201 => /\ nextUserId < FirstUserId + MaxGwCreates
                                /\ nextProductId < FirstProductId + MaxGwCreates
        /\ gw' = [gw EXCEPT ![c].pc = "settled",
                            ![c].reply = [kind |-> "response", status |-> out.status,
                                          data |-> Json(out.body)]]
        /\ IF svc = "users"
           THEN /\ users' = out.users
                /\ nextUserId' = out.nextUserId
                /\ userIdLog' = out.log
                /\ UNCHANGED <<products, nextProductId, productIdLog>>
           ELSE /\ products' = out.products
                /\ nextProductId' = out.nextProductId
                /\ productIdLog' = out.log
                /\ UNCHANGED <<users, nextUserId, userIdLog>>
    /\ UNCHANGED <<now, svc, resp>>

\* the backend is unreachable: the call is rejected without a response
BackendRefuse(c) ==
    /\ gw[c].pc = "awaiting"
    /\ gw' = [gw EXCEPT ![c].pc = "settled", ![c].reply = [kind |-> "error"]]
    /\ UNCHANGED <<users, nextUserId, userIdLog, products, nextProductId,
                   productIdLog, now, svc, resp>>

\* the backend accepts the connection and never answers; the calls set no
\* timeout (axios's default is none), so the call never settles
BackendHang(c) ==
    /\ gw[c].pc = "awaiting"
    /\ gw' = [gw EXCEPT ![c].pc = "hung"]
    /\ UNCHANGED <<users, nextUserId, userIdLog, products, nextProductId,
                   productIdLog, now, svc, resp>>

\* a handler that, in its catch block, sends its request a second time
GwResumeRetrying(c) ==
    /\ gw[c].pc = "settled"
    /\ IF Resolves(gw[c].reply) \/ gw[c].sent > 1
       THEN gw' = [gw EXCEPT ![c].pc = "done",
                             ![c].res = GwRespond(gw[c].req.route, gw[c].reply),
                             ![c].answered = @ + 1]
       ELSE gw' = [gw EXCEPT ![c].pc = "awaiting", ![c].reply = NoReply,
                             ![c].sent = @ + 1]
    /\ UNCHANGED <<users, nextUserId, userIdLog, products, nextProductId,
                   productIdLog, now, svc, resp>>

\* the awaited call has settled: the handler answers its client, by res.json
\* in the try block or by one res.status(...).json in the catch block
GwResume(c) ==
    /\ gw[c].pc = "settled"
    /\ gw' = [gw EXCEPT ![c].pc = "done",
                        ![c].res = GwRespond(gw[c].req.route, gw[c].reply),
                        ![c].answered = @ + 1]
    /\ UNCHANGED <<users, nextUserId, userIdLog, products, nextProductId,
                   productIdLog, now, svc, resp>>

----------------------------------------------------------------------------

\* the day the services start: after the last createdAt of the seeds
ClockStart == 41

Init ==
    /\ users = SeedUsers
    /\ nextUserId = FirstUserId
    /\ products = SeedProducts
    /\ nextProductId = FirstProductId
    /\ now = ClockStart
    /\ svc \in {"users", "products"}
    /\ resp = [route |-> "none", status |-> 0]
    /\ userIdLog = <<1, 2, 3>>
    /\ productIdLog = <<1, 2, 3, 4, 5>>
    /\ gw = [c \in Clients |-> Idle]

\* clients send requests directly to a service
Next ==
    \/ DoGetUsers
    \/ DoGetUserById
    \/ DoPostUsers
    \/ DoPutUser
    \/ DoDeleteUser
    \/ DoGetStatsUsers
    \/ DoGetProducts
    \/ DoGetProductById
    \/ DoPostProducts
    \/ DoPutProduct
    \/ DoDeleteProduct
    \/ DoPatchStock

Spec == Init /\ [][Next]_vars

\* clients send requests directly to the Users service
NextUsers ==
    \/ DoGetUsers
    \/ DoGetUserById
    \/ DoPostUsers
    \/ DoPutUser
    \/ DoDeleteUser
    \/ DoGetStatsUsers

SpecUsers == Init /\ [][NextUsers]_vars

\* clients send requests directly to the Products service
NextProducts ==
    \/ DoGetProducts
    \/ DoGetProductById
    \/ DoPostProducts
    \/ DoPutProduct
    \/ DoDeleteProduct
    \/ DoPatchStock

SpecProducts == Init /\ [][NextProducts]_vars

\* clients create and delete users and read the statistics of the Users service
NextUserStats ==
    \/ NewPostUsers
    \/ DoDeleteUser
    \/ DoGetStatsUsers

SpecUserStats == Init /\ [][NextUserStats]_vars

\* clients change the stocks of the Products service and read its statistics
NextProductStats ==
    \/ StockedPostProducts
    \/ DoPatchStock
    \/ DoDeleteProduct
    \/ DoGetStatsProducts

SpecProductStats == Init /\ [][NextProductStats]_vars

\* clients send requests to the gateway
NextGateway ==
    \E c \in Clients :
        \/ GwReceive(c)
        \/ BackendHandle(c)
        \/ BackendRefuse(c)
        \/ BackendHang(c)
        \/ GwResume(c)

SpecGateway == Init /\ [][NextGateway]_vars

\* The event loop runs a handler's continuation once its call has settled, and
\* a request that was sent meets one of the backend's three outcomes.
FairSpecGateway ==
    /\ SpecGateway
    /\ \A c \in Clients :
        /\ WF_vars(GwResume(c))
        /\ WF_vars(BackendHandle(c) \/ BackendRefuse(c) \/ BackendHang(c))

\* each client sends one request to the gateway
GwReceiveOnce(c) == gw[c].pc = "idle" /\ GwReceive(c)

NextRace ==
    \E c \in Clients :
        \/ GwReceiveOnce(c)
        \/ BackendHandle(c)
        \/ BackendRefuse(c)
        \/ BackendHang(c)
        \/ GwResume(c)

SpecRace == Init /\ [][NextRace]_vars

\* The event loop runs a handler's continuation once its call has settled.
FairSpecRace == SpecRace /\ \A c \in Clients : WF_vars(GwResume(c))

\* time passes between two requests
Tick ==
    /\ now < ClockStart + MaxTicks
    /\ now' = now + 1
    /\ UNCHANGED <<users, nextUserId, userIdLog, products, nextProductId,
                   productIdLog, svc, resp, gw>>

(* Requests sent while the clock advances: a create, updates that succeed *)
(* and updates that fail, on each service                                  *)

TimedPostUsers ==
    \E b \in {[name |-> "Alice", email |-> "alice@example.com"]} :
        /\ PostUsers(b).status = 201 => nextUserId < FirstUserId + MaxCreates
        /\ UsersServe("POST /users", PostUsers(b))

TimedPutUser ==
    \E idp \in UserIdParams, b \in {[role |-> "guest"], [email |-> "jane.smith@example.com"]} :
        UsersServe("PUT /users/:id", PutUser(idp, b))

TimedPostProducts ==
    \E b \in {[name |-> "Pen", price |-> Num(1000), category |-> "Office"]} :
        /\ PostProducts(b).status = 201 => nextProductId < FirstProductId + MaxCreates
        /\ ProductsServe("POST /products", PostProducts(b))

TimedPutProduct ==
    \E idp \in ProductIdParams, b \in {[stock |-> Num(0)], [price |-> Num(0)]} :
        ProductsServe("PUT /products/:id", PutProduct(idp, b))

TimedPatchStock ==
    \E idp \in ProductIdParams, b \in StockBodies :
        ProductsServe("PATCH /products/:id/stock", PatchStock(idp, b))

\* clients create and update records while the clock advances
NextClock ==
    \/ Tick
    \/ TimedPostUsers
    \/ TimedPutUser
    \/ TimedPostProducts
    \/ TimedPutProduct
    \/ TimedPatchStock

SpecClock == Init /\ [][NextClock]_vars

----------------------------------------------------------------------------
(* Claims *)

StrictlyIncreasing(log) ==
    \A i \in 1..Len(log) : \A j \in 1..Len(log) : i < j => log[i] < log[j]

IdsOf(s) == {s[i].id : i \in 1..Len(s)}

LogIds(log) == {log[i] : i \in 1..Len(log)}

\* C1: in both services every id a create assigns is strictly greater than
\* every id assigned before it, the seed ids included, so the id of a deleted
\* record is never assigned again; the stored ids are assigned ids.
C1_IdsNeverReused ==
    /\ StrictlyIncreasing(userIdLog)
    /\ StrictlyIncreasing(productIdLog)
    /\ IdsOf(users) \subseteq LogIds(userIdLog)
    /\ IdsOf(products) \subseteq LogIds(productIdLog)
    /\ Cardinality(IdsOf(users)) = Len(users)
    /\ Cardinality(IdsOf(products)) = Len(products)

\* a create has just succeeded after a delete had freed the id of a seed user
C1_CreateAfterDelete ==
    /\ resp = [route |-> "POST /users", status |-> 201]
    /\ 1 \notin IdsOf(users)
    /\ userIdLog[Len(userIdLog)] \in IdsOf(users)
    /\ Len(userIdLog) > 3

\* C2: no two user records in the store have the same email.
C2_EmailsUnique ==
    \A i \in 1..Len(users) : \A j \in 1..Len(users) :
        i # j => users[i].email # users[j].email

\* an update has moved user 1 to a new email and a create has taken the old one
C2_EmailsMoved ==
    \E i \in 1..Len(users) : \E j \in 1..Len(users) :
        /\ users[i].id = 1 /\ users[i].email = "alice@example.com"
        /\ users[j].id = 4 /\ users[j].email = "john.doe@example.com"

\* C3: every stored product has price > 0.
C3_PricePositive ==
    \A i \in 1..Len(products) :
        products[i].price.t = "num" /\ products[i].price.v > 0

\* C4: POST /users with a name and the email of a stored user returns 409 and
\* leaves the user list (records, order, count) and the id counter unchanged.
C4_DuplicateEmailRejected ==
    \A b \in UserBodies :
        (/\ Has(b, "name") /\ b.name # ""
         /\ Has(b, "email")
         /\ \E i \in 1..Len(users) : users[i].email = b.email)
        => /\ PostUsers(b).status = 409
           /\ PostUsers(b).users = users
           /\ PostUsers(b).nextUserId = nextUserId

\* a create has just been answered 409, in a store that holds a created user
C4_ConflictAnswered ==
    /\ resp = [route |-> "POST /users", status |-> 409]
    /\ Len(users) = 4
    /\ users[4].email = "alice@example.com"

\* C5: POST /products with name and category and a price that is zero or
\* negative returns 400 and adds no record.
C5_NonPositivePriceRejected ==
    \A b \in ProductPostBodies :
        (/\ Has(b, "name") /\ b.name # ""
         /\ Has(b, "category") /\ b.category # ""
         /\ Has(b, "price") /\ b.price.t = "num" /\ b.price.v <= 0)
        => /\ PostProducts(b).status = 400
           /\ PostProducts(b).products = products
           /\ PostProducts(b).nextProductId = nextProductId

\* a create has just been answered 400 and the store still holds the seed only
C5_RejectedCreate ==
    /\ resp = [route |-> "POST /products", status |-> 400]
    /\ products = SeedProducts
    /\ \E b \in ProductPostBodies :
        /\ Has(b, "name") /\ Has(b, "category") /\ Has(b, "price")
        /\ b.price = Num(-500)
        /\ PostProducts(b).status = 400

BackendSaid(c, status) ==
    gw[c].reply.kind = "response" /\ gw[c].reply.status = status

\* C6: on a by-id route, when the backend answers 404 the gateway answers 404
\* with exactly {error: "User not found"} or {error: "Product not found"}.
C6_NotFoundTranslated ==
    \A c \in Clients :
        (gw[c].pc = "done" /\ gw[c].req.route \in ByIdRoutes /\ BackendSaid(c, 404))
        => /\ gw[c].res.status = 404
           /\ gw[c].res.body =
                [error |-> IF gw[c].req.route \in UserRoutes
                           THEN "User not found" ELSE "Product not found"]

\* the gateway has answered a PUT or DELETE of a deleted record
C6_NotFoundRelayed ==
    \E c \in Clients :
        /\ gw[c].pc = "done" /\ BackendSaid(c, 404)
        /\ gw[c].req.route \in {"PUT /api/users/:id", "DELETE /api/users/:id",
                                "PUT /api/products/:id", "DELETE /api/products/:id"}
        /\ gw[c].res.status = 404

ClaimedFailText(route) ==
    CASE route = "GET /api/users" -> "Failed to fetch users"
      [] route = "GET /api/users/:id" -> "Failed to fetch user"
      [] route = "POST /api/users" -> "Failed to create user"
      [] route = "PUT /api/users/:id" -> "Failed to update user"
      [] route = "DELETE /api/users/:id" -> "Failed to delete user"
      [] route = "GET /api/products" -> "Failed to fetch products"
      [] route = "GET /api/products/:id" -> "Failed to fetch product"
      [] route = "POST /api/products" -> "Failed to create product"
      [] route = "PUT /api/products/:id" -> "Failed to update product"
      [] route = "DELETE /api/products/:id" -> "Failed to delete product"

\* C7: on every proxy route, when the backend is unreachable or answers an
\* error status other than 404, the gateway answers 500 with the error text
\* "Failed to <verb> <resource>" of the route.
C7_FailureIs500 ==
    \A c \in Clients :
        (/\ gw[c].pc = "done"
         /\ \/ gw[c].reply.kind = "error"
            \/ /\ gw[c].reply.kind = "response"
               /\ gw[c].reply.status >= 400
               /\ gw[c].reply.status # 404)
        => /\ gw[c].res.status = 500
           /\ gw[c].res.body.error = ClaimedFailText(gw[c].req.route)

\* the gateway has answered an update that the backend rejected with 409
C7_ConflictBecomes500 ==
    \E c \in Clients :
        /\ gw[c].pc = "done" /\ BackendSaid(c, 409)
        /\ gw[c].req.route = "PUT /api/users/:id"
        /\ gw[c].res.status = 500

\* C8: every request a proxy route has accepted is eventually answered.
C8_EveryRequestAnswered ==
    \A c \in Clients : (gw[c].pc = "awaiting") ~> (gw[c].pc = "done")

\* C9: a list request to the gateway returns what the same query returns from
\* the backend in the same store state (no other client has sent anything,
\* and a list request changes nothing, so the store is the one it met).
C9_QueryForwarded ==
    \A c \in Clients :
        (/\ gw[c].pc = "done"
         /\ gw[c].res.status = 200
         /\ \A d \in Clients \ {c} : gw[d].pc = "idle")
        => /\ gw[c].req.route = "GET /api/users"
                => gw[c].res.body = GetUsers(gw[c].req.query).body
           /\ gw[c].req.route = "GET /api/products"
                => gw[c].res.body = GetProducts(gw[c].req.query).body

RacedEmail(c, d) ==
    /\ c # d
    /\ gw[c].pc = "done" /\ gw[d].pc = "done"
    /\ gw[c].req.route = "POST /api/users" /\ gw[d].req.route = "POST /api/users"
    /\ gw[c].reply.kind = "response" /\ gw[d].reply.kind = "response"
    /\ Has(gw[c].req.body, "name") /\ Has(gw[d].req.body, "name")
    /\ Has(gw[c].req.body, "email") /\ Has(gw[d].req.body, "email")
    /\ gw[c].req.body.email = gw[d].req.body.email
    /\ \A i \in 1..Len(SeedUsers) : SeedUsers[i].email # gw[c].req.body.email

\* C10: when two clients each POST /api/users with the same new email and the
\* backend answers both, exactly one of them is answered 201 and the other an
\* error, and the store holds one user with that email and no id twice.
C10_OneCreateWins ==
    \A c \in Clients : \A d \in Clients :
        RacedEmail(c, d)
        => /\ {gw[c].res.status, gw[d].res.status} = {201, 500}
           /\ Cardinality({i \in 1..Len(users) :
                              users[i].email = gw[c].req.body.email}) = 1
           /\ Cardinality(IdsOf(users)) = Len(users)

\* both clients have sent the same new email and both have been answered:
\* the create of c2 reached the backend first
C10_RaceFinished ==
    /\ RacedEmail("c1", "c2")
    /\ gw["c1"].res.status = 500
    /\ gw["c2"].res.status = 201

\* C11: every stored product's stock is a non-negative integer.
C11_StockNonNegative ==
    \A i \in 1..Len(products) :
        /\ products[i].stock.t = "num"
        /\ products[i].stock.v >= 0
        /\ products[i].stock.v % Scale = 0

\* the step has updated the user at position i, whose id is idp: a fetch of
\* idp in the new store is answered 200 with the given role and the name and
\* email of before; the list is as long as before and every other record is
\* unchanged
RoleUpdateSeen(idp, i, role) ==
    /\ \A got \in {GetUserById(idp)'} :
          /\ got.status = 200
          /\ got.body.role = role
          /\ got.body.name = users[i].name
          /\ got.body.email = users[i].email
    /\ Len(users') = Len(users)
    /\ \A j \in 1..Len(users) : j # i => users'[j] = users[j]

\* C12 as amended: for every stored user, PUT /users/:id with a body that
\* supplies only role = x is answered 200; once that update has been applied
\* GET /users/:id returns role x when x is not empty and the role of before
\* when x is the empty string, with the name and email of before; the list
\* keeps its length and every other record is unchanged.
C12_RoleOnlyUpdate ==
    /\ [](\A idp \in UserIdParams : \A x \in RoleInputs :
              UserIndex(idp) # 0 => PutUser(idp, [role |-> x]).status = 200)
    /\ [][resp'.route = "PUT /users/:id" =>
            \A idp \in UserIdParams : \A x \in RoleInputs :
                LET i == UserIndex(idp)
                IN  (i # 0 /\ users' = PutUser(idp, [role |-> x]).users) =>
                        RoleUpdateSeen(idp, i, IF x = "" THEN users[i].role ELSE x)
         ]_vars

\* C12 as stated: for every stored user and every role x, GET /users/:id
\* after PUT /users/:id with only role = x returns role x with the name and
\* email of before.
C12_RoleAlwaysReplaced ==
    [][resp'.route = "PUT /users/:id" =>
            \A idp \in UserIdParams : \A x \in RoleInputs :
                LET i == UserIndex(idp)
                IN  (i # 0 /\ users' = PutUser(idp, [role |-> x]).users) =>
                        RoleUpdateSeen(idp, i, x)
     ]_vars

\* the role of user 1 has been updated and the user has then been fetched
C12_RoleUpdatedThenFetched ==
    /\ resp = [route |-> "GET /users/:id", status |-> 200]
    /\ \E i \in 1..Len(users) :
        /\ users[i].id = 1 /\ users[i].role = "guest"
        /\ users[i].name = "John Doe" /\ users[i].email = "john.doe@example.com"
        /\ Has(users[i], "updatedAt")

\* C13: for every stored user, DELETE /users/:id is answered 200 with the
\* removed record and leaves the list one shorter with the other records
\* unchanged and in order; once the delete has been applied, and after every
\* later step (creates included), GET /users/:id of that id is answered 404.
C13_DeletedStaysGone ==
    /\ [](\A idp \in UserIdParams :
              LET i == UserIndex(idp)
                  out == DeleteUser(idp)
              IN  i # 0 =>
                    /\ out.status = 200
                    /\ out.body.user = users[i]
                    /\ Len(out.users) = Len(users) - 1
                    /\ \A j \in 1..Len(out.users) :
                          out.users[j] = IF j < i THEN users[j] ELSE users[j + 1])
    /\ [][\A idp \in UserIdParams :
            LET i == UserIndex(idp)
            IN  /\ (/\ i # 0
                     /\ resp'.route = "DELETE /users/:id"
                     /\ users' = DeleteUser(idp).users)
                    => GetUserById(idp)'.status = 404
                /\ (i = 0 /\ \E k \in LogIds(userIdLog) : IdEq(k, ParseInt(idp)))
                    => GetUserById(idp)'.status = 404
         ]_vars

\* user 1 has been deleted, user 4 has been created, and a fetch of user 1
\* has been answered 404
C13_FetchAfterDelete ==
    /\ resp = [route |-> "GET /users/:id", status |-> 404]
    /\ IdsOf(users) = {2, 3, 4}

\* C14: for a stored product, PATCH /products/:id/stock with an integer
\* quantity q (0 included) is answered 200 and stores exactly q as the stock,
\* whatever the stock was, changing nothing else but updatedAt; with quantity
\* absent it is answered 400 and the store is unchanged.
C14_StockSetExactly ==
    \A idp \in ProductIdParams :
        LET i == ProductIndex(idp)
        IN  i # 0 =>
              /\ \A q \in QuantityInputs :
                    LET out == PatchStock(idp, [quantity |-> q])
                    IN  /\ out.status = 200
                        /\ out.products[i].stock = q
                        /\ out.products[i] =
                              Put([products[i] EXCEPT !.stock = q], "updatedAt", now)
                        /\ Len(out.products) = Len(products)
                        /\ \A j \in 1..Len(products) :
                              j # i => out.products[j] = products[j]
              /\ PatchStock(idp, NoBody).status = 400
              /\ PatchStock(idp, NoBody).products = products

\* a stock update has just set the stock of product 1 from its seed value to 0
C14_StockSetToZero ==
    /\ resp = [route |-> "PATCH /products/:id/stock", status |-> 200]
    /\ \E i \in 1..Len(products) :
        /\ products[i].id = 1 /\ products[i].stock = Num(0)
        /\ products[i].description = "High-performance laptop for professionals"
    /\ Len(products) = 5

\* the users GET /users is said to return for query q: those with the role
\* of q (all when q has no role), in store order, cut to the first n when
\* the limit of q parses as the integer n; all of them when q has no limit or
\* a limit that is not a number
ClaimedUsersList(q) ==
    LET matching == IF Has(q, "role")
                    THEN SelectIdx(users, {i \in 1..Len(users) : users[i].role = q.role}, 1)
                    ELSE users
        n == IF Has(q, "limit") THEN ParseInt(q.limit) ELSE NaN
    IN  IF n.t # "num" THEN matching
        ELSE IF n.v \div Scale >= Len(matching) THEN matching
        ELSE SubSeq(matching, 1, n.v \div Scale)

\* C15: GET /users returns the users with the given role, in store order, cut
\* to the first limit records when limit is a non-negative integer, and all
\* the matching users when limit is absent or not a number.
C15_UsersListed ==
    \A q \in UserQueries :
        (Has(q, "limit") /\ ParseInt(q.limit).t = "num" => ParseInt(q.limit).v >= 0)
        => /\ GetUsers(q).status = 200
           /\ GetUsers(q).body.users = ClaimedUsersList(q)
           /\ GetUsers(q).body.count = Len(ClaimedUsersList(q))

\* a capital letter with its small letter, for the letters of the Latin
\* alphabet and the accented letter of the categories
CapitalAndSmall ==
    {<<"A", "a">>, <<"B", "b">>, <<"C", "c">>, <<"D", "d">>, <<"E", "e">>, <<"F", "f">>,
     <<"G", "g">>, <<"H", "h">>, <<"I", "i">>, <<"J", "j">>, <<"K", "k">>, <<"L", "l">>,
     <<"M", "m">>, <<"N", "n">>, <<"O", "o">>, <<"P", "p">>, <<"Q", "q">>, <<"R", "r">>,
     <<"S", "s">>, <<"T", "t">>, <<"U", "u">>, <<"V", "v">>, <<"W", "w">>, <<"X", "x">>,
     <<"Y", "y">>, <<"Z", "z">>, <<"É", "é">>}

\* s and t are the same text when the case of the letters is ignored: they
\* have the same length and, place by place, the same character or the
\* capital and the small form of one letter
SameIgnoringCase(s, t) ==
    /\ Len(s) = Len(t)
    /\ \A k \in 1..Len(s) :
          \/ SubSeq(s, k, k) = SubSeq(t, k, k)
          \/ <<SubSeq(s, k, k), SubSeq(t, k, k)>> \in CapitalAndSmall
          \/ <<SubSeq(t, k, k), SubSeq(s, k, k)>> \in CapitalAndSmall

\* the positions of the stored products whose price lies in [a, b] and,
\* when q names a category, whose category equals it ignoring case
ClaimedProductMatches(q) ==
    LET a == ToNumber(q.minPrice)
        b == ToNumber(q.maxPrice)
    IN  {i \in 1..Len(products) :
            /\ products[i].price.t = "num"
            /\ a.v <= products[i].price.v
            /\ products[i].price.v <= b.v
            /\ Has(q, "category") => SameIgnoringCase(products[i].category, q.category)}

\* C16: GET /products with minPrice = a and maxPrice = b, with or without a
\* category, returns exactly the stored products with a <= price <= b (and
\* that category, ignoring case), in store order, and count is their number.
C16_ProductsFiltered ==
    \A q \in ProductQueries \cup CasedCategoryQueries :
        (Has(q, "minPrice") /\ Has(q, "maxPrice") /\ ~Has(q, "limit"))
        => LET out == GetProducts(q)
               hits == ClaimedProductMatches(q)
           IN  /\ out.status = 200
               /\ out.body.count = Cardinality(hits)
               /\ Len(out.body.products) = Cardinality(hits)
               /\ \A i \in hits : \E k \in 1..Len(out.body.products) :
                     out.body.products[k] = products[i]
               /\ \A k \in 1..Len(out.body.products) : \E i \in hits :
                     out.body.products[k] = products[i]
               /\ \A k \in 1..Len(out.body.products) :
                     \A l \in 1..Len(out.body.products) :
                        k < l => out.body.products[k].id < out.body.products[l].id

\* a filtered list has just been served from a store that holds a created
\* product; both bounds of a query are met by the price of a seed product
\* whose category differs from the query's in case only, and a query in
\* capitals finds the created product by its accented category
C16_BoundsMet ==
    /\ resp = [route |-> "GET /products", status |-> 200]
    /\ Len(products) = 6
    /\ \E q \in ProductQueries :
        /\ Has(q, "minPrice") /\ Has(q, "maxPrice") /\ Has(q, "category")
        /\ ~Has(q, "limit")
        /\ \A i \in ClaimedProductMatches(q) : products[i].category # q.category
        /\ \E i \in ClaimedProductMatches(q) : products[i].price = ToNumber(q.minPrice)
        /\ \E i \in ClaimedProductMatches(q) : products[i].price = ToNumber(q.maxPrice)
        /\ Len(GetProducts(q).body.products) = 2
    /\ \E q \in CasedCategoryQueries :
        /\ q.category = "CAFÉ"
        /\ ClaimedProductMatches(q) = {6}
        /\ products[6].category = "Café"
        /\ GetProducts(q).body.products = <<products[6]>>

\* C17: for a stored product, PUT /products/:id with stock = 0 stores the
\* stock 0 and with description = "" stores the empty description, each
\* leaving the other field as it was; a body that supplies neither leaves
\* both as they were.
C17_PresenceNotTruthiness ==
    \A idp \in ProductIdParams :
        LET i == ProductIndex(idp)
        IN  i # 0 =>
              /\ LET out == PutProduct(idp, [stock |-> Num(0)])
                 IN  /\ out.status = 200
                     /\ out.products[i].stock = Num(0)
                     /\ out.products[i].description = products[i].description
              /\ LET out == PutProduct(idp, [description |-> ""])
                 IN  /\ out.status = 200
                     /\ out.products[i].description = ""
                     /\ out.products[i].stock = products[i].stock
              /\ \A b \in ProductPutBodies :
                    ("description" \notin DOMAIN b /\ "stock" \notin DOMAIN b)
                    => LET after == PutProduct(idp, b).products[i]
                       IN  /\ after.description = products[i].description
                           /\ after.stock = products[i].stock

\* an update has emptied the description of product 1, whose stock is 0
C17_EmptiedByPut ==
    /\ resp = [route |-> "PUT /products/:id", status |-> 200]
    /\ \E i \in 1..Len(products) :
        /\ products[i].id = 1
        /\ products[i].description = ""
        /\ products[i].stock = Num(0)
        /\ products[i].name = "Laptop Pro X1"

\* no record of after holds v in field k unless it held v in before
NotSetTo(before, after, k, v) ==
    \A j \in 1..Len(after) : after[j][k] = v => before[j][k] = v

\* the bodies of PUT /products/:id: those of the menu and a body whose price
\* is a string that starts with a number
AnyPricePutBodies == ProductPutBodies \cup {[price |-> Str(<<"0", "a", "b", "c">>)]}

\* in this state no update of a stored record empties a name or zeroes a price
NoEmptyNameNoZeroPriceByPut ==
    /\ svc = "users" => \A idp \in UserIdParams : \A b \in UserBodies :
          UserIndex(idp) # 0 => NotSetTo(users, PutUser(idp, b).users, "name", "")
    /\ svc = "products" => \A idp \in ProductIdParams : \A b \in AnyPricePutBodies :
          ProductIndex(idp) # 0 =>
              LET after == PutProduct(idp, b).products
              IN  /\ NotSetTo(products, after, "name", "")
                  /\ NotSetTo(products, after, "price", Num(0))

\* C18: no PUT /users/:id and no PUT /products/:id sets a name to the empty
\* string, and no PUT /products/:id sets a price or a stock to 0, whatever
\* the body.
C18_NoFalsyValueByPut ==
    /\ NoEmptyNameNoZeroPriceByPut
    /\ svc = "products" => \A idp \in ProductIdParams : \A b \in AnyPricePutBodies :
          ProductIndex(idp) # 0 =>
              NotSetTo(products, PutProduct(idp, b).products, "stock", Num(0))

\* C19: PUT /users/:id of a stored user with the email of a different stored
\* user is answered 409 and leaves every record as it was; with the user's
\* own current email it is answered 200.
C19_EmailConflictOnUpdate ==
    \A idp \in UserIdParams : \A b \in UserBodies :
        LET i == UserIndex(idp)
            out == PutUser(idp, b)
        IN  (i # 0 /\ "email" \in DOMAIN b) =>
              /\ (\E j \in 1..Len(users) : j # i /\ users[j].email = b.email)
                    => /\ out.status = 409
                       /\ out.users = users
                       /\ out.nextUserId = nextUserId
              /\ b.email = users[i].email => out.status = 200

\* an update has just been answered 409 in a store that holds a created user
\* and no updated record
C19_UpdateConflictAnswered ==
    /\ resp = [route |-> "PUT /users/:id", status |-> 409]
    /\ Len(users) = 4
    /\ \A i \in 1..Len(users) : ~Has(users[i], "updatedAt")

\* the routes that update a record
UpdateRoutes == {"PUT /users/:id", "PUT /products/:id", "PATCH /products/:id/stock"}

\* one step seen on a store: a record that stays keeps its createdAt and its
\* updatedAt if it had one; a record the step changed carries updatedAt = now
\* and the step was a successful update; a new record has createdAt = now
\* and no updatedAt
StampsKept(before, after) ==
    \A j \in 1..Len(after) :
        IF \E i \in 1..Len(before) : before[i].id = after[j].id
        THEN \A i \in 1..Len(before) :
                before[i].id = after[j].id =>
                    /\ after[j].createdAt = before[i].createdAt
                    /\ Has(before[i], "updatedAt") => Has(after[j], "updatedAt")
                    /\ after[j] # before[i] =>
                          /\ Has(after[j], "updatedAt")
                          /\ after[j].updatedAt = now
                          /\ resp'.route \in UpdateRoutes
                          /\ resp'.status = 200
        ELSE /\ after[j].createdAt = now
             /\ ~Has(after[j], "updatedAt")

\* the record at position i of a store carries updatedAt = now
StampedNow(store, i) == Has(store[i], "updatedAt") /\ store[i].updatedAt = now

\* C20: in both stores createdAt never changes once the record exists;
\* updatedAt is absent on a new record, appears only through a successful
\* update, is never removed, and every successful PUT or PATCH stock leaves
\* updatedAt = the current time on its record; a step that is not answered
\* 200 or 201 changes no record.
C20_Timestamps ==
    /\ [](/\ \A idp \in UserIdParams : \A b \in UserBodies :
              PutUser(idp, b).status = 200
                 => StampedNow(PutUser(idp, b).users, UserIndex(idp))
          /\ \A idp \in ProductIdParams : \A b \in ProductPutBodies :
              PutProduct(idp, b).status = 200
                 => StampedNow(PutProduct(idp, b).products, ProductIndex(idp))
          /\ \A idp \in ProductIdParams : \A b \in StockBodies :
              PatchStock(idp, b).status = 200
                 => StampedNow(PatchStock(idp, b).products, ProductIndex(idp)))
    /\ [][/\ StampsKept(users, users')
          /\ StampsKept(products, products')
          /\ resp'.status \notin {200, 201} => (users' = users /\ products' = products)
         ]_vars

\* a record created at the start has been updated on a later day, and a
\* record created on a later day has not been updated
C20_UpdatedLater ==
    /\ now > ClockStart
    /\ \E i \in 1..Len(users) :
        /\ users[i].createdAt = 0
        /\ Has(users[i], "updatedAt") /\ users[i].updatedAt = now
    /\ \E i \in 1..Len(users) :
        /\ users[i].createdAt = now /\ ~Has(users[i], "updatedAt")

\* C21: the k-th successful create of the Users service is given the id 3 + k
\* and that of the Products service the id 5 + k, whatever else was answered
\* in between: the log of assigned ids is 1, 2, 3, ... without a gap, the
\* counter is one more than its length, a create that succeeds after k - 1
\* others (the log holds 3 + k - 1, or 5 + k - 1, ids) is given 3 + k (5 + k),
\* and a create that is rejected leaves the counter as it was.
C21_SequentialIds ==
    /\ \A n \in 1..Len(userIdLog) : userIdLog[n] = n
    /\ \A n \in 1..Len(productIdLog) : productIdLog[n] = n
    /\ nextUserId = Len(userIdLog) + 1
    /\ nextProductId = Len(productIdLog) + 1
    /\ svc = "users" => \A b \in UserBodies :
          LET out == PostUsers(b)
          IN  IF out.status = 201
              THEN /\ out.body.user.id = 3 + (Len(userIdLog) - 3 + 1)
                   /\ out.nextUserId = nextUserId + 1
              ELSE out.nextUserId = nextUserId
    /\ svc = "products" => \A b \in ProductPostBodies :
          LET out == PostProducts(b)
          IN  IF out.status = 201
              THEN /\ out.body.product.id = 5 + (Len(productIdLog) - 5 + 1)
                   /\ out.nextProductId = nextProductId + 1
              ELSE out.nextProductId = nextProductId

\* product 6 has just been created, the first create to succeed, in a store
\* from which product 1 had been deleted
C21_CreateAfterOtherRequests ==
    /\ resp = [route |-> "POST /products", status |-> 201]
    /\ productIdLog = <<1, 2, 3, 4, 5, 6>>
    /\ IdsOf(products) = {2, 3, 4, 5, 6}
    /\ nextProductId = 7

\* C22: every stored user has a non-empty name and a non-empty email, every
\* stored product a non-empty name and a non-empty category; a create whose
\* body lacks one of them, or holds it empty, is answered 400.
C22_RequiredTextNonEmpty ==
    /\ \A i \in 1..Len(users) : users[i].name # "" /\ users[i].email # ""
    /\ \A i \in 1..Len(products) : products[i].name # "" /\ products[i].category # ""
    /\ svc = "users" => \A b \in UserBodies :
          (\E k \in {"name", "email"} : k \notin DOMAIN b \/ b[k] = "")
          => PostUsers(b).status = 400
    /\ svc = "products" => \A b \in ProductPostBodies :
          (\E k \in {"name", "category"} : k \notin DOMAIN b \/ b[k] = "")
          => PostProducts(b).status = 400

\* a create of a product has just been rejected with 400; the store holds a
\* created product, and product 1 has been updated and kept its name and
\* category
C22_RejectedAfterUpdates ==
    /\ resp = [route |-> "POST /products", status |-> 400]
    /\ Len(products) = 6
    /\ products[6].name = "Pen" /\ products[6].category = "Café"
    /\ Has(products[1], "updatedAt")
    /\ products[1].name = "Laptop Pro X1" /\ products[1].category = "Electronics"

\* the sum of the stock values of the store, as a number
ClaimedTotalStock ==
    LET n == Len(products)
        vals == [i \in 1..n |-> ToNumber(products[i].stock)]
        Sum[i \in 0..n] == IF i = 0 THEN 0 ELSE Sum[i - 1] + vals[i].v
    IN  IF \A i \in 1..n : vals[i].t = "num" THEN Num(Sum[n]) ELSE NaN

\* C23: GET /stats/products returns total = the number of stored products
\* and totalStock = the sum of their stock values; the counts of byCategory
\* sum to total; on the seed data total = 5 and totalStock = 360.
C23_ProductStats ==
    LET body == GetStatsProducts.body
        cats == DOMAIN body.byCategory
        CatSum[S \in SUBSET cats] ==
            IF S = {} THEN 0
            ELSE LET c == CHOOSE c \in S : TRUE
                 IN  body.byCategory[c] + CatSum[S \ {c}]
    IN  /\ GetStatsProducts.status = 200
        /\ body.total = Len(products)
        /\ body.totalStock = ClaimedTotalStock
        /\ CatSum[cats] = body.total
        /\ products = SeedProducts => (body.total = 5 /\ body.totalStock = Num(36000))

\* C24: GET /stats/users returns total = the number of stored users and
\* recentUsers = the last min(5, total) stored records, the most recent
\* first, so with strictly descending ids, after any creates and deletes.
C24_RecentUsers ==
    LET body == GetStatsUsers.body
        n == Len(users)
        k == IF n < 5 THEN n ELSE 5
    IN  /\ GetStatsUsers.status = 200
        /\ body.total = n
        /\ Len(body.recentUsers) = k
        /\ \A j \in 1..k : body.recentUsers[j] = users[n + 1 - j]
        /\ \A j \in 1..(k - 1) : body.recentUsers[j].id > body.recentUsers[j + 1].id

\* the statistics are read when six users are stored, after four creates
\* and the delete of user 1: the five most recent are users 7, 6, 5, 4, 3
C24_SixUsersAfterDelete ==
    /\ resp = [route |-> "GET /stats/users", status |-> 200]
    /\ Len(users) = 6
    /\ IdsOf(users) = {2, 3, 4, 5, 6, 7}
    /\ [j \in 1..5 |-> GetStatsUsers.body.recentUsers[j].id] = <<7, 6, 5, 4, 3>>

\* C25: for each request on a proxy route the gateway calls its backend at
\* most once (it does not call again after a failure) and sends exactly one
\* response once the call has settled, whether it resolved or was rejected.
C25_OneCallOneAnswer ==
    /\ [](\A c \in Clients :
            LET g == gw[c]
            IN  /\ g.sent <= 1
                /\ g.answered <= 1
                /\ g.pc # "idle" => g.sent = 1
                /\ g.pc = "done" <=> g.answered = 1
                /\ g.pc = "done" => g.res.status # 0)
    /\ \A c \in Clients : (gw[c].pc = "settled") ~> (gw[c].answered = 1)

\* one client has been answered on the success path and the other on the
\* failure path, after a backend error and after no answer of the backend
C25_BothPathsAnswered ==
    \E c, d \in Clients :
        /\ gw[c].pc = "done" /\ Resolves(gw[c].reply) /\ gw[c].res.status \in {200, 201}
        /\ gw[d].pc = "done" /\ gw[d].reply.kind = "error" /\ gw[d].res.status = 500
        /\ gw[c].sent = 1 /\ gw[c].answered = 1
        /\ gw[d].sent = 1 /\ gw[d].answered = 1

\* a handler's result leaves the store and the counter of its service as they are
UsersKept(out) == out.users = users /\ out.nextUserId = nextUserId

ProductsKept(out) == out.products = products /\ out.nextProductId = nextProductId

Rejected(out) == out.status \in 400..499

\* in this state every request that is answered 4xx, and every GET, leaves
\* the store and the counter of its service as they are
RejectedChangesNothing ==
    /\ svc = "users" =>
        /\ \A b \in UserBodies :
            LET out == PostUsers(b) IN Rejected(out) => UsersKept(out)
        /\ \A idp \in UserIdParams :
            /\ \A b \in UserBodies :
                LET out == PutUser(idp, b) IN Rejected(out) => UsersKept(out)
            /\ LET out == DeleteUser(idp) IN Rejected(out) => UsersKept(out)
            /\ UsersKept(GetUserById(idp))
        /\ \A q \in UserQueries : UsersKept(GetUsers(q))
        /\ UsersKept(GetStatsUsers) /\ UsersKept(GetUsersHealth)
        /\ UsersKept(GetUsersRoot)
        /\ \A path \in UnknownPaths :
            LET out == UsersRouteNotFound(path) IN Rejected(out) /\ UsersKept(out)
    /\ svc = "products" =>
        /\ \A path \in UnknownPaths :
            LET out == ProductsRouteNotFound(path) IN Rejected(out) /\ ProductsKept(out)
        /\ \A b \in ProductPostBodies \cup StockedPostBodies :
            LET out == PostProducts(b) IN Rejected(out) => ProductsKept(out)
        /\ \A idp \in ProductIdParams :
            /\ \A b \in ProductPutField :
                LET out == PutProduct(idp, b) IN Rejected(out) => ProductsKept(out)
            /\ \A b \in StockBodies :
                LET out == PatchStock(idp, b) IN Rejected(out) => ProductsKept(out)
            /\ LET out == DeleteProduct(idp) IN Rejected(out) => ProductsKept(out)
            /\ ProductsKept(GetProductById(idp))
        /\ \A q \in ProductQueries : ProductsKept(GetProducts(q))
        /\ \A q \in SearchQueries : ProductsKept(GetSearch(q))
        /\ ProductsKept(GetCategories) /\ ProductsKept(GetStatsProducts)
        /\ ProductsKept(GetProductsHealth) /\ ProductsKept(GetProductsRoot)

\* C26: a request to the Users or the Products service that is answered 4xx
\* (400, 404 for an unknown id or route, 409) leaves the records and the
\* next-id counter of the service as they were, and so does every GET, in any
\* state the services reach.
C26_RejectedChangesNothing == []RejectedChangesNothing

\* a stock update without a quantity has just been answered 400 in a store
\* that holds a created product and a product whose stock was set to 0
C26_RejectedAfterChanges ==
    /\ resp = [route |-> "PATCH /products/:id/stock", status |-> 400]
    /\ nextProductId = 7 /\ Len(products) = 6
    /\ products[1].stock = Num(0)
    /\ PatchStock(Str(<<"1">>), NoBody).status = 400
    /\ PostProducts([name |-> "Pen", price |-> Num(0), category |-> "Office"]).status = 400
====
